---- MODULE Spec2Model ----
(***************************************************************************)
(* A model of the VHub version-control server: the two storage backends    *)
(* (graph_db: graph.json plus flat-file objects; sqlite_fs: one SQLite     *)
(* database per repository) and their operations create_repo, push_commit, *)
(* pull_commits, clone_repo and delete_repo.                                *)
(*                                                                         *)
(* The two backends work on disjoint directories (repositories/graph_db    *)
(* and repositories/sqlite_fs), so a behaviour of the model exercises one  *)
(* backend, chosen in Init (variable impl); the other one keeps its        *)
(* freshly constructed state.                                              *)
(*                                                                         *)
(* Spec runs the requests one after the other. ConcSpec runs two requests  *)
(* at a time, as the threaded Flask server does, each request advancing    *)
(* from one file or database access to the next (variables threads, torn). *)
(* FaultSpec adds to ConcSpec handlers that fail at one of their accesses, *)
(* RaceSpec runs delete_repo beside a push or a pull on one repository.    *)
(* PairSpec sends every request to both backends and compares them, and    *)
(* DiffSpec applies calculate_changes to all pairs of short contents.      *)
(***************************************************************************)
EXTENDS Integers, Sequences, FiniteSets, TLC

VARIABLES impl, gdb, sql, last, npush, open, threads, torn

vars == <<impl, gdb, sql, last, npush, open, threads, torn>>

----------------------------------------------------------------------------
(* Bounds and input sets                                                   *)

\* the number of pushes that record a new commit in one behaviour
MaxPush == 2

\* Python's None in a field that holds an id, a status or a name
None == "None"

CR == "\r"
LF == "\n"

\* caller-chosen commit ids
Ids == {"A", "B"}

\* file paths of a commit descriptor
Paths == {"f"}

\* file contents, as sequences of characters: one line without a terminator,
\* and one line with a carriage return and a line feed
Contents == {<<"b">>, <<"a", CR, LF>>}

\* caller-supplied ISO timestamps, modelled by their order
Timestamps == {1, 2}

Author == "u"

\* repository names a caller may send, as sequences of characters
Names == {<<"a">>, <<"b">>, <<"a", "!">>, <<"!">>}

\* the names sent to the operations that validate them: one rejected name
\* stands for all
CheckedNames == {<<"a">>, <<"b">>, <<"a", "!">>}

\* the names sent as the source of a pull or a clone: the two repositories
\* are interchangeable, so history is synchronised from a only
SourceNames == {<<"a">>, <<"a", "!">>}

----------------------------------------------------------------------------
(* Finite maps (Python dicts, table rows keyed by their primary key)       *)

EmptyMap == [x \in {} |-> None]

Put(m, k, v) == [x \in (DOMAIN m) \cup {k} |-> IF x = k THEN v ELSE m[x]]

Range(s) == {s[i] : i \in DOMAIN s}

----------------------------------------------------------------------------
(* Names: utils/path_utils.sanitize_path and validate_repo_name            *)

\* the characters of [a-zA-Z0-9_-] that the model's names use
NameChars == {"a", "b"}

\* the characters kept by re.sub(r'[^\w\s\-.]', '', path)
PathChars == NameChars \cup {".", " "}

RECURSIVE StripLeft(_)
StripLeft(s) ==
    IF s # <<>> /\ Head(s) = " " THEN StripLeft(Tail(s)) ELSE s

RECURSIVE StripRight(_)
StripRight(s) ==
    IF s # <<>> /\ s[Len(s)] = " " THEN StripRight(SubSeq(s, 1, Len(s) - 1)) ELSE s

sanitize_path(path) ==
    StripRight(StripLeft(SelectSeq(path, LAMBDA ch : ch \in PathChars)))

validate_repo_name(repo_name) ==
    /\ repo_name # <<>>
    /\ \A i \in DOMAIN repo_name : repo_name[i] \in NameChars

\* the directory of a repository under the backend's base directory;
\* the empty sequence is the base directory itself
get_repo_path(repo_name) == sanitize_path(repo_name)

\* the repository directories that the names of the model can denote
Dirs == {get_repo_path(n) : n \in Names} \ {<<>>}

----------------------------------------------------------------------------
(* Contents: hashing, text-mode file I/O, line splitting, diff             *)

\* utils/hash_utils.calculate_hash: SHA1 of the content. Collisions are not
\* modelled: the digest is the content under a tag, which is injective.
calculate_hash(content) == <<"sha1">> \o content

\* None in a field that holds a hash
NoHash == <<>>

\* open(path, 'w').write(content) on a POSIX host: '\n' is written as it is
WriteText(content) == content

\* open(path, 'r').read(): universal newlines, '\r\n' and '\r' become '\n'
RECURSIVE ReadText(_)
ReadText(s) ==
    IF s = <<>> THEN <<>>
    ELSE IF Head(s) = CR
         THEN IF Len(s) > 1 /\ s[2] = LF
              THEN <<LF>> \o ReadText(SubSeq(s, 3, Len(s)))
              ELSE <<LF>> \o ReadText(Tail(s))
         ELSE <<Head(s)>> \o ReadText(Tail(s))

\* str.splitlines(): split at '\n', '\r\n' and '\r', no empty last line
RECURSIVE SplitAcc(_, _, _)
SplitAcc(s, cur, acc) ==
    IF s = <<>> THEN (IF cur = <<>> THEN acc ELSE Append(acc, cur))
    ELSE IF Head(s) = CR /\ Len(s) > 1 /\ s[2] = LF
         THEN SplitAcc(SubSeq(s, 3, Len(s)), <<>>, Append(acc, cur))
         ELSE IF Head(s) \in {CR, LF}
              THEN SplitAcc(Tail(s), <<>>, Append(acc, cur))
              ELSE SplitAcc(Tail(s), Append(cur, Head(s)), acc)

splitlines(s) == SplitAcc(s, <<>>, <<>>)

RECURSIVE CommonPrefix(_, _)
CommonPrefix(a, b) ==
    IF a # <<>> /\ b # <<>> /\ Head(a) = Head(b)
    THEN 1 + CommonPrefix(Tail(a), Tail(b))
    ELSE 0

Reverse(s) == [i \in 1..Len(s) |-> s[Len(s) + 1 - i]]

Tagged(tag, lines) == [i \in 1..Len(lines) |-> <<tag, lines[i]>>]

\* None in the diff field of a change
NoDiff == [null |-> TRUE, labels |-> <<>>, hunk |-> <<>>]

\* '\n'.join(difflib.unified_diff(a, b, 'a/<path>', 'b/<path>', lineterm=''))
\* for files of at most a few lines (one hunk): nothing at all when the line
\* lists are equal, else the two labels and the hunk, whose lines are the
\* common first lines, the removed lines, the added lines and the common
\* last lines.
unified_diff(a, b, path) ==
    IF a = b THEN [null |-> FALSE, labels |-> <<>>, hunk |-> <<>>]
    ELSE LET p  == CommonPrefix(a, b)
             a1 == SubSeq(a, p + 1, Len(a))
             b1 == SubSeq(b, p + 1, Len(b))
             q  == CommonPrefix(Reverse(a1), Reverse(b1))
         IN  [null   |-> FALSE,
              labels |-> <<path, path>>,
              hunk   |-> Tagged(" ", SubSeq(a, 1, p))
                         \o Tagged("-", SubSeq(a1, 1, Len(a1) - q))
                         \o Tagged("+", SubSeq(b1, 1, Len(b1) - q))
                         \o Tagged(" ", SubSeq(a1, Len(a1) - q + 1, Len(a1)))]

----------------------------------------------------------------------------
(* Commit descriptors: the JSON body of a push                             *)

\* a file of a descriptor: the hash the caller claims, and the content
FileInfos ==
    {[hash |-> calculate_hash(c), content |-> c] : c \in Contents}
    \cup {[hash |-> calculate_hash(<<"b">>), content |-> <<"a", CR, LF>>]}

FileInputs ==
    UNION {[ps -> FileInfos] : ps \in SUBSET Paths}

\* the descriptors a caller sends: any id, parent and files; the message is
\* sent with its own timestamp, so two descriptors of different timestamps
\* differ in the message too
MessageAt(ts) == IF ts = 1 THEN "m1" ELSE "m2"

Descriptors ==
    {[id |-> i, message |-> MessageAt(ts), author |-> Author, timestamp |-> ts,
      parent_id |-> par, files |-> fs] :
        i \in Ids, ts \in Timestamps, par \in Ids \cup {None}, fs \in FileInputs}

\* the descriptors sent under a name to a backend: one is enough where the
\* name is rejected, and graph_db never reads the hash the caller claims
DescriptorsFor(backend, name) ==
    IF ~validate_repo_name(name)
    THEN {CHOOSE d \in Descriptors : TRUE}
    ELSE IF backend = "graph_db"
    THEN {d \in Descriptors :
             \A p \in DOMAIN d.files :
                 d.files[p].hash = calculate_hash(d.files[p].content)}
    ELSE Descriptors

----------------------------------------------------------------------------
(* Change records: the loop shared by both calculate_changes               *)

\* the content of an object, or of a file row, that is not there
NoContent == <<None>>

Change(status, diff, previous_hash, current_hash) ==
    [status |-> status, diff |-> diff,
     previous_hash |-> previous_hash, current_hash |-> current_hash]

\* `if not parent_id`: every file of the commit is added
AddedAll(hashes) ==
    [p \in DOMAIN hashes |-> Change("added", NoDiff, NoHash, hashes[p])]

\* a variant of the third branch that never finds a path modified
NeverModified(parent_files, current_files, p) == FALSE

\* the third branch of the loop: both sides have the path, the hashes differ
IsModified(parent_files, current_files, p) ==
    /\ p \in DOMAIN parent_files
    /\ p \in DOMAIN current_files
    /\ current_files[p].hash # parent_files[p].hash

\* the paths that get an entry: added, deleted or modified
ChangedPaths(parent_files, current_files) ==
    {p \in (DOMAIN parent_files) \cup (DOMAIN current_files) :
        \/ p \in DOMAIN current_files /\ p \notin DOMAIN parent_files
        \/ p \notin DOMAIN current_files /\ p \in DOMAIN parent_files
        \/ IsModified(parent_files, current_files, p)}

\* the entry of one path, by the if / elif / elif of the loop
ChangeOf(parent_files, current_files, p) ==
    IF p \in DOMAIN current_files /\ p \notin DOMAIN parent_files
    THEN Change("added", NoDiff, NoHash, current_files[p].hash)
    ELSE IF p \notin DOMAIN current_files /\ p \in DOMAIN parent_files
         THEN Change("deleted", NoDiff, parent_files[p].hash, NoHash)
         ELSE Change("modified",
                     unified_diff(splitlines(parent_files[p].content),
                                  splitlines(current_files[p].content), p),
                     parent_files[p].hash, current_files[p].hash)

CompareFiles(parent_files, current_files) ==
    [p \in ChangedPaths(parent_files, current_files) |->
        ChangeOf(parent_files, current_files, p)]

\* None.splitlines() raises: a modified path whose content could not be read
CompareRaises(parent_files, current_files) ==
    \E p \in (DOMAIN parent_files) \cap (DOMAIN current_files) :
        /\ IsModified(parent_files, current_files, p)
        /\ NoContent \in {parent_files[p].content, current_files[p].content}

\* a variant of the duplicate test under which no id is ever found
NeverExists(commits, id) == FALSE

\* `if commit_id in commits` / `SELECT 1 FROM commits WHERE id = ?`
CommitExists(commits, id) == id \in DOMAIN commits

----------------------------------------------------------------------------
(* The graph_db backend: one directory per repository, holding graph.json  *)
(* (commits in insertion order, changes, branches, HEAD) and objects/      *)

\* a repository directory that does not exist
NoRepoG ==
    [dir |-> FALSE, graph |-> FALSE, order |-> <<>>, commits |-> EmptyMap,
     changes |-> EmptyMap, HEAD |-> None, main |-> None, objects |-> EmptyMap]

\* os.makedirs(objects_dir, exist_ok=True): makes the repository directory too
get_objects_dir(r) == [r EXCEPT !.dir = TRUE]

init_repo_graph(r) ==
    IF r.graph THEN r
    ELSE [r EXCEPT !.graph = TRUE, !.order = <<>>, !.commits = EmptyMap,
                   !.changes = EmptyMap, !.HEAD = None, !.main = None]

\* create_repo once the name is validated
CreateRepoG(r) ==
    IF r.dir THEN r
    ELSE init_repo_graph(get_objects_dir([r EXCEPT !.dir = TRUE]))

store_object(r, content) ==
    LET object_hash == calculate_hash(content)
        r1 == get_objects_dir(r)
    IN  IF object_hash \in DOMAIN r1.objects THEN r1
        ELSE [r1 EXCEPT !.objects = Put(@, object_hash, WriteText(content))]

get_object_content(r, object_hash) ==
    IF object_hash \in DOMAIN r.objects
    THEN ReadText(r.objects[object_hash])
    ELSE NoContent

\* push_commit's loop over data['files']: store each content
RECURSIVE StoreFiles(_, _, _)
StoreFiles(r, files, ps) ==
    IF ps = {} THEN r
    ELSE LET p == CHOOSE x \in ps : TRUE
         IN  StoreFiles(store_object(r, files[p].content), files, ps \ {p})

FilesHashes(files) ==
    [p \in DOMAIN files |-> calculate_hash(files[p].content)]

\* calculate_changes reads each file of a commit back from the object store
FileViewG(r, hashes) ==
    [p \in DOMAIN hashes |->
        [hash |-> hashes[p], content |-> get_object_content(r, hashes[p])]]

ParentFilesG(r, parent_id) ==
    IF parent_id \in DOMAIN r.commits
    THEN FileViewG(r, r.commits[parent_id].files)
    ELSE EmptyMap

calculate_changes_g(r, parent_id, hashes) ==
    IF parent_id = None THEN AddedAll(hashes)
    ELSE CompareFiles(ParentFilesG(r, parent_id), FileViewG(r, hashes))

ChangesRaiseG(r, parent_id, hashes) ==
    /\ parent_id # None
    /\ CompareRaises(ParentFilesG(r, parent_id), FileViewG(r, hashes))

\* a variant of the fast-forward rule that moves HEAD on every push
AlwaysAdvance(current_head, id, parent_id) == id

\* the fast-forward rule of push_commit
AdvanceHead(current_head, id, parent_id) ==
    IF current_head = None \/ current_head = parent_id THEN id ELSE current_head

CommitData(d, hashes) ==
    [message |-> d.message, author |-> d.author, timestamp |-> d.timestamp,
     parent_id |-> d.parent_id, files |-> hashes]

Reply(repo, code, kind, n) == [repo |-> repo, code |-> code, kind |-> kind, n |-> n]

\* push_commit on a validated name: the repository after it, and the response
PushG(r0, d) ==
    LET r1 == IF ~r0.dir THEN init_repo_graph(get_objects_dir(r0)) ELSE r0
    IN  IF ~r1.graph THEN Reply(r1, 500, "error", 0)
        ELSE IF CommitExists(r1.commits, d.id) THEN Reply(r1, 200, "exists", 0)
        ELSE LET r2 == StoreFiles(r1, d.files, DOMAIN d.files)
                 hashes == FilesHashes(d.files)
             IN  IF ChangesRaiseG(r2, d.parent_id, hashes)
                 THEN Reply(r2, 500, "error", 0)
                 ELSE LET changes == calculate_changes_g(r2, d.parent_id, hashes)
                          head == AdvanceHead(r2.HEAD, d.id, d.parent_id)
                      IN  Reply([r2 EXCEPT
                                    !.order = IF d.id \in Range(@) THEN @
                                              ELSE Append(@, d.id),
                                    !.commits = Put(@, d.id, CommitData(d, hashes)),
                                    !.changes = Put(@, d.id, changes),
                                    !.HEAD = head,
                                    !.main = IF head = r2.HEAD THEN @ ELSE head],
                                200, "pushed", Cardinality(DOMAIN changes))

\* pull_commits' visit(): depth first, a commit is appended after its parent;
\* source_commits.get(commit_id, {}) lets it walk to an id that is no commit
RECURSIVE Visit(_, _, _)
Visit(commits, st, commit_id) ==
    IF commit_id \in st.visited THEN st
    ELSE LET st1 == [st EXCEPT !.visited = @ \cup {commit_id}]
             parent_id == IF commit_id \in DOMAIN commits
                          THEN commits[commit_id].parent_id
                          ELSE None
             st2 == IF parent_id # None THEN Visit(commits, st1, parent_id) ELSE st1
         IN  [st2 EXCEPT !.order = Append(@, commit_id)]

RECURSIVE VisitAll(_, _, _, _)
VisitAll(commits, keys, i, st) ==
    IF i > Len(keys) THEN st
    ELSE VisitAll(commits, keys, i + 1, Visit(commits, st, keys[i]))

\* the commit_order of pull_commits
CommitOrder(src) ==
    VisitAll(src.commits, src.order, 1, [visited |-> {}, order |-> <<>>]).order

\* the blobs of one pulled commit: read from the source, stored in the target
RECURSIVE CopyFiles(_, _, _, _)
CopyFiles(src, tgt, files, ps) ==
    IF ps = {} THEN tgt
    ELSE LET p == CHOOSE x \in ps : TRUE
         IN  CopyFiles(src, store_object(tgt, get_object_content(src, files[p])),
                       files, ps \ {p})

\* calculate_hash(None) raises: a blob of the commit is not in the source
CopyRaises(src, files) ==
    \E p \in DOMAIN files : get_object_content(src, files[p]) = NoContent

\* a variant of the pulled files map that keeps the hashes of the source
KeepHashes(src, files) == files

PulledFiles(src, files) ==
    [p \in DOMAIN files |-> calculate_hash(get_object_content(src, files[p]))]

\* a variant of the parent test of pull that finds every parent present
NeverMissing(parent_id, target_commit_ids) == FALSE

\* `if parent_id and parent_id not in target_commit_ids: continue`
ParentMissing(parent_id, target_commit_ids) ==
    parent_id # None /\ parent_id \notin target_commit_ids

\* a variant of pull's HEAD rule that moves HEAD to every pulled commit
PullHeadLast(current_head, commit_id) == commit_id

\* pull sets HEAD only when the target has none
PullHead(current_head, commit_id) ==
    IF current_head = None THEN commit_id ELSE current_head

\* the loop of pull_commits over commit_order. st.mem is target_graph_data,
\* st.disk the target directory (its objects are written as the loop runs),
\* st.ids is target_commit_ids, st.added the commits in the order in which
\* the loop has put them into the target.
PullStateG(tgt) ==
    [mem |-> tgt, disk |-> tgt, ids |-> DOMAIN tgt.commits,
     pulled |-> 0, skipped |-> 0, raised |-> FALSE, added |-> <<>>]

RECURSIVE PullLoopG(_, _, _, _)
PullLoopG(src, order, i, st) ==
    IF i > Len(order) \/ st.raised THEN st
    ELSE LET commit_id == order[i]
         IN  IF commit_id \in st.ids
             THEN PullLoopG(src, order, i + 1, [st EXCEPT !.skipped = @ + 1])
             ELSE IF commit_id \notin DOMAIN src.commits
             THEN [st EXCEPT !.raised = TRUE]
             ELSE LET commit_data == src.commits[commit_id]
                  IN  IF ParentMissing(commit_data.parent_id, st.ids)
                      THEN PullLoopG(src, order, i + 1, st)
                      ELSE IF CopyRaises(src, commit_data.files)
                      THEN [st EXCEPT !.raised = TRUE]
                      ELSE LET head == PullHead(st.mem.HEAD, commit_id)
                               mem1 == [st.mem EXCEPT
                                   !.order = IF commit_id \in Range(@) THEN @
                                             ELSE Append(@, commit_id),
                                   !.commits = Put(@, commit_id,
                                       [commit_data EXCEPT
                                           !.files = PulledFiles(src, commit_data.files)]),
                                   !.changes = IF commit_id \in DOMAIN src.changes
                                               THEN Put(@, commit_id, src.changes[commit_id])
                                               ELSE @,
                                   !.HEAD = head,
                                   !.main = IF head = st.mem.HEAD THEN @ ELSE head]
                           IN  PullLoopG(src, order, i + 1,
                                   [st EXCEPT
                                       !.mem = mem1,
                                       !.disk = CopyFiles(src, @, commit_data.files,
                                                          DOMAIN commit_data.files),
                                       !.ids = @ \cup {commit_id},
                                       !.pulled = @ + 1,
                                       !.added = Append(@, commit_id)])

\* pull_commits on validated names, the source graph being there: the target
\* after it, and the response. The target graph is written once, at the end.
PullG(src, tgt0) ==
    LET tgt1 == IF ~tgt0.graph THEN CreateRepoG(tgt0) ELSE tgt0
    IN  IF ~tgt1.graph THEN [repo |-> tgt1, code |-> 500, kind |-> "error",
                             pulled |-> 0, skipped |-> 0]
        ELSE LET st == PullLoopG(src, CommitOrder(src), 1, PullStateG(tgt1))
             IN  IF st.raised
                 THEN [repo |-> st.disk, code |-> 500, kind |-> "error",
                       pulled |-> 0, skipped |-> 0]
                 ELSE [repo |-> [st.mem EXCEPT !.dir = st.disk.dir,
                                               !.objects = st.disk.objects],
                       code |-> 200, kind |-> "pulled",
                       pulled |-> st.pulled, skipped |-> st.skipped]

\* the copy of a clone without the HEAD of the source
CloneWithoutHead(src, tgt) ==
    [tgt EXCEPT !.objects = src.objects,
                !.order = src.order,
                !.commits = src.commits,
                !.changes = src.changes]

\* clone_repo's copy once the target is created: every object file, then the
\* commits, changes, branches and HEAD of the source graph
CloneCopyG(src, tgt) ==
    [tgt EXCEPT !.objects = [h \in (DOMAIN @) \cup (DOMAIN src.objects) |->
                                IF h \in DOMAIN src.objects THEN src.objects[h]
                                ELSE @[h]],
                !.order = src.order,
                !.commits = src.commits,
                !.changes = src.changes,
                !.main = src.main,
                !.HEAD = src.HEAD]

\* the paths counted by clone_repo's file_set
FileCountG(r) ==
    Cardinality(UNION {DOMAIN r.commits[c].files : c \in DOMAIN r.commits})

----------------------------------------------------------------------------
(* The sqlite_fs backend: one directory per repository, holding vcs.db     *)
(* with the tables commits, files and changes                              *)

NoRepoS ==
    [dir |-> FALSE, db |-> FALSE, commits |-> EmptyMap, files |-> EmptyMap,
     changes |-> EmptyMap]

init_repo_db(r) ==
    IF r.db THEN r
    ELSE [r EXCEPT !.db = TRUE, !.commits = EmptyMap, !.files = EmptyMap,
                   !.changes = EmptyMap]

CreateRepoS(r) ==
    IF r.dir THEN r ELSE init_repo_db([r EXCEPT !.dir = TRUE])

\* the row of table commits
CommitRow(d) ==
    [message |-> d.message, author |-> d.author, timestamp |-> d.timestamp,
     parent_id |-> d.parent_id]

\* the rows of table files of one commit: the caller's hash and content
FileRows(files) ==
    [p \in DOMAIN files |-> [hash |-> files[p].hash, content |-> files[p].content]]

\* SELECT file_path, file_hash, content FROM files WHERE commit_id = ?
ParentFilesS(r, parent_id) ==
    IF parent_id \in DOMAIN r.files THEN r.files[parent_id] ELSE EmptyMap

calculate_changes_s(r, parent_id, files) ==
    IF parent_id = None
    THEN AddedAll([p \in DOMAIN files |-> files[p].hash])
    ELSE CompareFiles(ParentFilesS(r, parent_id), files)

\* a variant of the parent check that lets every parent_id through
ParentAccepted(r, parent_id) == FALSE

\* the parent check of push_commit
ParentRejected(r, parent_id) ==
    parent_id # None /\ ~CommitExists(r.commits, parent_id)

PushS(r0, d) ==
    LET r1 == IF ~r0.dir THEN init_repo_db([r0 EXCEPT !.dir = TRUE]) ELSE r0
    IN  IF ~r1.db THEN Reply(r1, 500, "error", 0)
        ELSE IF CommitExists(r1.commits, d.id) THEN Reply(r1, 200, "exists", 0)
        ELSE IF ParentRejected(r1, d.parent_id) THEN Reply(r1, 400, "no_parent", 0)
        ELSE LET changes == calculate_changes_s(r1, d.parent_id, d.files)
             IN  Reply([r1 EXCEPT !.commits = Put(@, d.id, CommitRow(d)),
                                  !.files = Put(@, d.id, FileRows(d.files)),
                                  !.changes = Put(@, d.id, changes)],
                       200, "pushed", Cardinality(DOMAIN changes))

\* SELECT ... FROM commits ORDER BY timestamp ASC: the rows in an order that
\* is ascending by timestamp; SQL leaves the order of equal timestamps open
AscendingOrders(r) ==
    {o \in [1..Cardinality(DOMAIN r.commits) -> DOMAIN r.commits] :
        /\ \A i, j \in DOMAIN o : i # j => o[i] # o[j]
        /\ \A i, j \in DOMAIN o :
               i < j => r.commits[o[i]].timestamp <= r.commits[o[j]].timestamp}

\* the loop of pull_commits over source_commits; st.repo is the target as
\* seen through target_conn, st.ids is target_commit_ids, st.added the
\* commits in the order in which the loop has inserted them
PullStateS(tgt) ==
    [repo |-> tgt, ids |-> DOMAIN tgt.commits, pulled |-> 0, skipped |-> 0,
     added |-> <<>>]

RECURSIVE PullLoopS(_, _, _, _)
PullLoopS(src, order, i, st) ==
    IF i > Len(order) THEN st
    ELSE LET commit_id == order[i]
         IN  IF commit_id \in st.ids
             THEN PullLoopS(src, order, i + 1, [st EXCEPT !.skipped = @ + 1])
             ELSE IF ParentMissing(src.commits[commit_id].parent_id, st.ids)
             THEN PullLoopS(src, order, i + 1, st)
             ELSE PullLoopS(src, order, i + 1,
                     [st EXCEPT
                         !.repo = [@ EXCEPT
                             !.commits = Put(@, commit_id, src.commits[commit_id]),
                             !.files = Put(@, commit_id,
                                           ParentFilesS(src, commit_id)),
                             !.changes = Put(@, commit_id,
                                 IF commit_id \in DOMAIN src.changes
                                 THEN src.changes[commit_id] ELSE EmptyMap)],
                         !.ids = @ \cup {commit_id},
                         !.pulled = @ + 1,
                         !.added = Append(@, commit_id)])

\* pull_commits on validated names, the source database being there
PullS(src, tgt0, order) ==
    LET tgt1 == IF ~tgt0.db THEN CreateRepoS(tgt0) ELSE tgt0
    IN  IF ~tgt1.db THEN [repo |-> tgt1, code |-> 500, kind |-> "error",
                          pulled |-> 0, skipped |-> 0]
        ELSE LET st == PullLoopS(src, order, 1, PullStateS(tgt1))
             IN  [repo |-> st.repo, code |-> 200, kind |-> "pulled",
                  pulled |-> st.pulled, skipped |-> st.skipped]

----------------------------------------------------------------------------
(* The read operations. They write nothing, so each is an operator on the  *)
(* backend's directory tree that gives the response. None of them          *)
(* validates the name: the path is get_repo_path of the name as sent.      *)

\* the repository directory a name leads to; under the base directory
\* itself there is no graph.json and no vcs.db
LookupG(fs, repo_name) ==
    IF get_repo_path(repo_name) \in Dirs THEN fs.repos[get_repo_path(repo_name)]
    ELSE NoRepoG

LookupS(fs, repo_name) ==
    IF get_repo_path(repo_name) \in Dirs THEN fs.repos[get_repo_path(repo_name)]
    ELSE NoRepoS

NotFound == [code |-> 404, kind |-> "not_found"]

\* list.sort(key=timestamp, reverse=True): stable, descending
RECURSIVE InsertDesc(_, _)
InsertDesc(sorted, e) ==
    IF sorted = <<>> THEN <<e>>
    ELSE IF Head(sorted).timestamp >= e.timestamp
         THEN <<Head(sorted)>> \o InsertDesc(Tail(sorted), e)
         ELSE <<e>> \o sorted

\* a variant of the sort that leaves the list in the order of insertion
KeepOrder(entries, sorted) == entries

RECURSIVE SortDesc(_, _)
SortDesc(entries, sorted) ==
    IF entries = <<>> THEN sorted
    ELSE SortDesc(Tail(entries), InsertDesc(sorted, Head(entries)))

\* one element of the list that get_commits returns
CommitEntry(id, commit, change_count) ==
    [id |-> id, message |-> commit.message, author |-> commit.author,
     timestamp |-> commit.timestamp, parent_id |-> commit.parent_id,
     change_count |-> change_count]

ChangeCount(changes, id) ==
    IF id \in DOMAIN changes THEN Cardinality(DOMAIN changes[id]) ELSE 0

get_commits_g(fs, repo_name) ==
    LET r == LookupG(fs, repo_name)
    IN  IF ~r.graph THEN NotFound
        ELSE [code |-> 200, kind |-> "commits",
              body |-> SortDesc([i \in DOMAIN r.order |->
                                    CommitEntry(r.order[i], r.commits[r.order[i]],
                                                ChangeCount(r.changes, r.order[i]))],
                                <<>>)]

\* ORDER BY timestamp DESC: the order of equal timestamps is left open
DescendingOrders(r) ==
    {o \in [1..Cardinality(DOMAIN r.commits) -> DOMAIN r.commits] :
        /\ \A i, j \in DOMAIN o : i # j => o[i] # o[j]
        /\ \A i, j \in DOMAIN o :
               i < j => r.commits[o[i]].timestamp >= r.commits[o[j]].timestamp}

\* the lists that get_commits of sqlite_fs may return
get_commits_s(fs, repo_name) ==
    LET r == LookupS(fs, repo_name)
    IN  IF ~r.db THEN {NotFound}
        ELSE {[code |-> 200, kind |-> "commits",
               body |-> [i \in DOMAIN o |->
                            CommitEntry(o[i], r.commits[o[i]],
                                        ChangeCount(r.changes, o[i]))]] :
                 o \in DescendingOrders(r)}

check_commit_g(fs, repo_name, commit_id) ==
    LET r == LookupG(fs, repo_name)
    IN  IF ~r.graph THEN [code |-> 404, kind |-> "not_found", exists |-> FALSE]
        ELSE [code |-> 200, kind |-> "checked",
              exists |-> commit_id \in DOMAIN r.commits]

check_commit_s(fs, repo_name, commit_id) ==
    LET r == LookupS(fs, repo_name)
    IN  IF ~r.db THEN [code |-> 404, kind |-> "not_found", exists |-> FALSE]
        ELSE [code |-> 200, kind |-> "checked",
              exists |-> commit_id \in DOMAIN r.commits]

\* `change[2] if change[1] == "modified" else None`
ShownChanges(changes) ==
    [p \in DOMAIN changes |->
        IF changes[p].status = "modified" THEN changes[p]
        ELSE [changes[p] EXCEPT !.diff = NoDiff]]

get_commit_g(fs, repo_name, commit_id) ==
    LET r == LookupG(fs, repo_name)
    IN  IF ~r.graph THEN NotFound
        ELSE IF commit_id \notin DOMAIN r.commits
        THEN [code |-> 404, kind |-> "no_commit"]
        ELSE [code |-> 200, kind |-> "commit", id |-> commit_id,
              message |-> r.commits[commit_id].message,
              author |-> r.commits[commit_id].author,
              timestamp |-> r.commits[commit_id].timestamp,
              parent_id |-> r.commits[commit_id].parent_id,
              files |-> FileViewG(r, r.commits[commit_id].files),
              changes |-> IF commit_id \in DOMAIN r.changes
                          THEN r.changes[commit_id] ELSE EmptyMap]

get_commit_s(fs, repo_name, commit_id) ==
    LET r == LookupS(fs, repo_name)
    IN  IF ~r.db THEN NotFound
        ELSE IF commit_id \notin DOMAIN r.commits
        THEN [code |-> 404, kind |-> "no_commit"]
        ELSE [code |-> 200, kind |-> "commit", id |-> commit_id,
              message |-> r.commits[commit_id].message,
              author |-> r.commits[commit_id].author,
              timestamp |-> r.commits[commit_id].timestamp,
              parent_id |-> r.commits[commit_id].parent_id,
              files |-> ParentFilesS(r, commit_id),
              changes |-> ShownChanges(IF commit_id \in DOMAIN r.changes
                                       THEN r.changes[commit_id] ELSE EmptyMap)]

\* one element of the list that get_commit_history returns
HistoryEntry(id, commit, change) ==
    [commit_id |-> id, message |-> commit.message, author |-> commit.author,
     timestamp |-> commit.timestamp, status |-> change.status,
     diff |-> IF change.status = "modified" THEN change.diff ELSE NoDiff,
     previous_hash |-> change.previous_hash,
     current_hash |-> change.current_hash]

get_commit_history_g(fs, repo_name, file_path) ==
    LET r == LookupG(fs, repo_name)
        touching == SelectSeq(r.order,
                        LAMBDA c : c \in DOMAIN r.changes
                                      /\ file_path \in DOMAIN r.changes[c])
    IN  IF ~r.graph THEN NotFound
        ELSE [code |-> 200, kind |-> "history",
              body |-> SortDesc([i \in DOMAIN touching |->
                                    HistoryEntry(touching[i], r.commits[touching[i]],
                                                 r.changes[touching[i]][file_path])],
                                <<>>)]

\* commits JOIN changes WHERE file_path = ? ORDER BY timestamp DESC
get_commit_history_s(fs, repo_name, file_path) ==
    LET r == LookupS(fs, repo_name)
    IN  IF ~r.db THEN {NotFound}
        ELSE {[code |-> 200, kind |-> "history",
               body |-> LET touching ==
                                SelectSeq(o, LAMBDA c : c \in DOMAIN r.changes
                                                 /\ file_path \in DOMAIN r.changes[c])
                        IN  [i \in DOMAIN touching |->
                                HistoryEntry(touching[i], r.commits[touching[i]],
                                             r.changes[touching[i]][file_path])]] :
                 o \in DescendingOrders(r)}

\* list_repos: the names of the directories that hold a graph.json (a
\* vcs.db); os.listdir raises when the base directory is gone
list_repos_g(fs) ==
    IF ~fs.base THEN [code |-> 500, names |-> {}]
    ELSE [code |-> 200,
          names |-> {d \in Dirs : fs.repos[d].dir /\ fs.repos[d].graph}]

list_repos_s(fs) ==
    IF ~fs.base THEN [code |-> 500, names |-> {}]
    ELSE [code |-> 200,
          names |-> {d \in Dirs : fs.repos[d].dir /\ fs.repos[d].db}]

----------------------------------------------------------------------------
(* The state: each backend's base directory, and the last response         *)

Implementations == {"graph_db", "sqlite_fs"}

\* the request handler threads of the server
Threads == {1, 2}

\* a thread that handles no request. While it handles one: pc is the place
\* in the handler, op the operation, req the descriptor of a push, id the
\* commit id of a read, mem the
\* handler's graph_data, ids the commits that the handler has added to mem,
\* over whether another handler has dumped graph.json since this one opened
\* it, gone whether graph.json has been unlinked since this one opened it,
\* and resp the response once it is sent.
Idle ==
    [pc |-> "idle", op |-> "none", req |-> <<>>, id |-> None, mem |-> NoRepoG,
     ids |-> {}, over |-> FALSE, gone |-> FALSE, resp |-> <<>>]

\* the backend's directory tree after repository directory k becomes r
SetRepo(fs, k, r) ==
    [base |-> fs.base \/ r.dir, repos |-> [fs.repos EXCEPT ![k] = r]]

\* a variant of the removal that leaves the tree as it is
KeepTree(fs, k, none) == fs

\* shutil.rmtree of the directory that get_repo_path gives; for a name that
\* sanitizes to the empty string it is the base directory
RemoveTree(fs, k, none) ==
    IF k = <<>> THEN [base |-> FALSE, repos |-> [d \in Dirs |-> none]]
    ELSE [fs EXCEPT !.repos[k] = none]

DirExists(fs, k) == IF k = <<>> THEN fs.base ELSE fs.repos[k].dir

\* the response of the last operation: the operation and its arguments, the
\* HTTP status, what the message says, and the counts of the body
\* (push: n changes; pull: n pulled, m skipped; clone: n commits, m files)
Response(op, src, name, id, code, kind, n, m, differs) ==
    [op |-> op, src |-> src, name |-> name, id |-> id, code |-> code,
     kind |-> kind, n |-> n, m |-> m, differs |-> differs]

\* A request that leaves both stores as they were has no effect on what any
\* later request does: whatever can follow it can follow the state before it
\* as well. Its response is recorded and the behaviour is closed there, so a
\* behaviour is a sequence of requests that change a store, followed by at
\* most one that does not. open says that the behaviour is not closed.
Open == open

Init ==
    /\ impl \in Implementations
    /\ gdb = [base |-> TRUE, repos |-> [d \in Dirs |-> NoRepoG]]
    /\ sql = [base |-> TRUE, repos |-> [d \in Dirs |-> NoRepoS]]
    /\ last = Response("init", <<>>, <<>>, None, 200, "init", 0, 0, FALSE)
    /\ npush = 0
    /\ open = TRUE
    /\ threads = [t \in Threads |-> Idle]
    /\ torn = {}

Invalid(op, src, name, id) == Response(op, src, name, id, 400, "invalid", 0, 0, FALSE)

CreateRepo(name) ==
    /\ Open
    /\ IF ~validate_repo_name(name)
       THEN /\ last' = Invalid("create", <<>>, name, None)
            /\ UNCHANGED <<gdb, sql>>
       ELSE LET k == get_repo_path(name)
            IN  IF impl = "graph_db"
                THEN /\ gdb' = SetRepo(gdb, k, CreateRepoG(gdb.repos[k]))
                     /\ last' = Response("create", <<>>, name, None, 200,
                                    IF gdb.repos[k].dir THEN "exists" ELSE "created",
                                    0, 0, FALSE)
                     /\ UNCHANGED sql
                ELSE /\ sql' = SetRepo(sql, k, CreateRepoS(sql.repos[k]))
                     /\ last' = Response("create", <<>>, name, None, 200,
                                    IF sql.repos[k].dir THEN "exists" ELSE "created",
                                    0, 0, FALSE)
                     /\ UNCHANGED gdb
    /\ UNCHANGED <<impl, npush>>
    /\ UNCHANGED <<threads, torn>>
    /\ open' = (gdb' # gdb \/ sql' # sql)

\* whether descriptor d differs from the commit recorded under its id in the
\* message, the parent or the files
DiffersG(r, d) ==
    /\ d.id \in DOMAIN r.commits
    /\ r.commits[d.id] # CommitData(d, FilesHashes(d.files))

DiffersS(r, d) ==
    /\ d.id \in DOMAIN r.commits
    /\ \/ r.commits[d.id] # CommitRow(d)
       \/ r.files[d.id] # FileRows(d.files)

PushCommit(name, d) ==
    /\ Open
    /\ IF ~validate_repo_name(name)
       THEN /\ last' = Invalid("push", <<>>, name, d.id)
            /\ UNCHANGED <<gdb, sql, npush>>
       ELSE LET k == get_repo_path(name)
                reply == IF impl = "graph_db" THEN PushG(gdb.repos[k], d)
                         ELSE PushS(sql.repos[k], d)
            IN  /\ reply.kind = "pushed" => npush < MaxPush
                /\ npush' = IF reply.kind = "pushed" THEN npush + 1 ELSE npush
                /\ IF impl = "graph_db"
                   THEN /\ gdb' = SetRepo(gdb, k, reply.repo)
                        /\ last' = Response("push", <<>>, name, d.id, reply.code,
                                       reply.kind, reply.n, 0,
                                       DiffersG(gdb.repos[k], d))
                        /\ UNCHANGED sql
                   ELSE /\ sql' = SetRepo(sql, k, reply.repo)
                        /\ last' = Response("push", <<>>, name, d.id, reply.code,
                                       reply.kind, reply.n, 0,
                                       DiffersS(sql.repos[k], d))
                        /\ UNCHANGED gdb
    /\ UNCHANGED impl
    /\ UNCHANGED <<threads, torn>>
    /\ open' = (gdb' # gdb \/ sql' # sql)

\* pull_commits with the target made before the source is looked for
PullCreatesFirst(source_repo, target_repo) ==
    /\ Open
    /\ validate_repo_name(source_repo) /\ validate_repo_name(target_repo)
    /\ impl = "graph_db"
    /\ LET ks == get_repo_path(source_repo)
           kt == get_repo_path(target_repo)
           tgt1 == IF ~gdb.repos[kt].graph THEN CreateRepoG(gdb.repos[kt])
                   ELSE gdb.repos[kt]
       IN  IF ~gdb.repos[ks].graph
           THEN /\ gdb' = SetRepo(gdb, kt, tgt1)
                /\ last' = Response("pull", source_repo, target_repo,
                               None, 404, "not_found", 0, 0, FALSE)
           ELSE LET reply == PullG(gdb.repos[ks], tgt1)
                IN  /\ gdb' = SetRepo(gdb, kt, reply.repo)
                    /\ last' = Response("pull", source_repo, target_repo,
                                   None, reply.code, reply.kind,
                                   reply.pulled, reply.skipped, FALSE)
    /\ UNCHANGED <<impl, npush, sql>>
    /\ UNCHANGED <<threads, torn>>
    /\ open' = (gdb' # gdb \/ sql' # sql)

PullCommits(source_repo, target_repo) ==
    /\ Open
    /\ IF ~validate_repo_name(source_repo) \/ ~validate_repo_name(target_repo)
       THEN /\ last' = Invalid("pull", source_repo, target_repo, None)
            /\ UNCHANGED <<gdb, sql>>
       ELSE LET ks == get_repo_path(source_repo)
                kt == get_repo_path(target_repo)
            IN  IF impl = "graph_db"
                THEN /\ UNCHANGED sql
                     /\ IF ~gdb.repos[ks].graph
                        THEN /\ last' = Response("pull", source_repo, target_repo,
                                            None, 404, "not_found", 0, 0, FALSE)
                             /\ UNCHANGED gdb
                        ELSE LET reply == PullG(gdb.repos[ks], gdb.repos[kt])
                             IN  /\ gdb' = SetRepo(gdb, kt, reply.repo)
                                 /\ last' = Response("pull", source_repo, target_repo,
                                                None, reply.code, reply.kind,
                                                reply.pulled, reply.skipped, FALSE)
                ELSE /\ UNCHANGED gdb
                     /\ IF ~sql.repos[ks].db
                        THEN /\ last' = Response("pull", source_repo, target_repo,
                                            None, 404, "not_found", 0, 0, FALSE)
                             /\ UNCHANGED sql
                        ELSE \E order \in AscendingOrders(sql.repos[ks]) :
                             LET reply == PullS(sql.repos[ks], sql.repos[kt], order)
                             IN  /\ sql' = SetRepo(sql, kt, reply.repo)
                                 /\ last' = Response("pull", source_repo, target_repo,
                                                None, reply.code, reply.kind,
                                                reply.pulled, reply.skipped, FALSE)
    /\ UNCHANGED <<impl, npush>>
    /\ UNCHANGED <<threads, torn>>
    /\ open' = (gdb' # gdb \/ sql' # sql)

\* fault: a storage fault (OSError, sqlite3.Error) strikes while the clone
\* copies, after it has created the target. graph_db's handler removes the
\* target; in sqlite_fs the fault is inside pull_commits, which catches it
\* and returns the 500 that clone_repo passes on, the target's transaction
\* never being committed.
CloneRepo(source_repo, target_repo, fault) ==
    /\ Open
    /\ IF ~validate_repo_name(source_repo) \/ ~validate_repo_name(target_repo)
       THEN /\ last' = Invalid("clone", source_repo, target_repo, None)
            /\ UNCHANGED <<gdb, sql>>
       ELSE LET ks == get_repo_path(source_repo)
                kt == get_repo_path(target_repo)
            IN  IF impl = "graph_db"
                THEN \* get_objects_dir(source_repo) runs before the checks
                     LET fs1 == SetRepo(gdb, ks, get_objects_dir(gdb.repos[ks]))
                         src == fs1.repos[ks]
                     IN  /\ UNCHANGED sql
                         /\ IF ~src.dir \/ ~src.graph
                            THEN /\ gdb' = fs1
                                 /\ last' = Response("clone", source_repo, target_repo,
                                                None, 404, "not_found", 0, 0, FALSE)
                            ELSE IF fs1.repos[kt].dir
                            THEN /\ gdb' = fs1
                                 /\ last' = Response("clone", source_repo, target_repo,
                                                None, 400, "target_exists", 0, 0, FALSE)
                            ELSE IF fault
                            THEN /\ gdb' = RemoveTree(SetRepo(fs1, kt,
                                               CreateRepoG(fs1.repos[kt])),
                                               kt, NoRepoG)
                                 /\ last' = Response("clone", source_repo, target_repo,
                                                None, 500, "error", 0, 0, FALSE)
                            ELSE LET tgt == CloneCopyG(src, CreateRepoG(fs1.repos[kt]))
                                 IN  /\ gdb' = SetRepo(fs1, kt, tgt)
                                     /\ last' = Response("clone", source_repo,
                                                    target_repo, None, 200, "cloned",
                                                    Cardinality(DOMAIN tgt.commits),
                                                    FileCountG(tgt), FALSE)
                ELSE /\ UNCHANGED gdb
                     /\ IF ~sql.repos[ks].dir \/ ~sql.repos[ks].db
                        THEN /\ last' = Response("clone", source_repo, target_repo,
                                            None, 404, "not_found", 0, 0, FALSE)
                             /\ UNCHANGED sql
                        ELSE IF sql.repos[kt].dir
                        THEN /\ last' = Response("clone", source_repo, target_repo,
                                            None, 400, "target_exists", 0, 0, FALSE)
                             /\ UNCHANGED sql
                        ELSE IF fault
                        THEN /\ sql' = SetRepo(sql, kt, CreateRepoS(sql.repos[kt]))
                             /\ last' = Response("clone", source_repo, target_repo,
                                            None, 500, "error", 0, 0, FALSE)
                        ELSE \E order \in AscendingOrders(sql.repos[ks]) :
                             \* create_repo, then the response of pull_commits
                             LET reply == PullS(sql.repos[ks],
                                                CreateRepoS(sql.repos[kt]), order)
                             IN  /\ sql' = SetRepo(sql, kt, reply.repo)
                                 /\ last' = Response("clone", source_repo, target_repo,
                                                None, reply.code, reply.kind,
                                                reply.pulled, reply.skipped, FALSE)
    /\ UNCHANGED <<impl, npush>>
    /\ UNCHANGED <<threads, torn>>
    /\ open' = (gdb' # gdb \/ sql' # sql)

\* delete_repo does not validate the name
DeleteRepo(repo_name) ==
    /\ Open
    /\ LET k == get_repo_path(repo_name)
       IN  IF impl = "graph_db"
           THEN /\ UNCHANGED sql
                /\ IF ~DirExists(gdb, k)
                   THEN /\ last' = Response("delete", <<>>, repo_name, None, 404,
                                       "not_found", 0, 0, FALSE)
                        /\ UNCHANGED gdb
                   ELSE /\ gdb' = RemoveTree(gdb, k, NoRepoG)
                        /\ last' = Response("delete", <<>>, repo_name, None, 200,
                                       "deleted", 0, 0, FALSE)
           ELSE /\ UNCHANGED gdb
                /\ IF ~DirExists(sql, k)
                   THEN /\ last' = Response("delete", <<>>, repo_name, None, 404,
                                       "not_found", 0, 0, FALSE)
                        /\ UNCHANGED sql
                   ELSE /\ sql' = RemoveTree(sql, k, NoRepoS)
                        /\ last' = Response("delete", <<>>, repo_name, None, 200,
                                       "deleted", 0, 0, FALSE)
    /\ UNCHANGED <<impl, npush>>
    /\ UNCHANGED <<threads, torn>>
    /\ open' = (gdb' # gdb \/ sql' # sql)

Next ==
    \/ \E name \in CheckedNames : CreateRepo(name)
    \/ \E name \in CheckedNames : \E d \in DescriptorsFor(impl, name) : PushCommit(name, d)
    \/ \E s \in SourceNames, t \in CheckedNames : PullCommits(s, t)
    \/ \E s \in SourceNames, t \in CheckedNames, fault \in BOOLEAN :
           CloneRepo(s, t, fault)
    \/ \E name \in Names : DeleteRepo(name)

Spec == Init /\ [][Next]_vars

----------------------------------------------------------------------------
(* Overlapping requests. app.run serves each request in a thread of its    *)
(* own, and no handler takes a lock: a handler is a sequence of steps, one *)
(* per access to graph.json or to the database, and the steps of two       *)
(* handlers interleave. The requests work on repository a; repository b is *)
(* the source of the pull.                                                 *)

TargetName == <<"a">>

PullSource == <<"b">>

\* the commit that repository b holds when the requests arrive
SourceCommit ==
    [id |-> "B", message |-> MessageAt(1), author |-> Author, timestamp |-> 1,
     parent_id |-> None,
     files |-> [p \in Paths |-> [hash |-> calculate_hash(<<"b">>),
                                 content |-> <<"b">>]]]

Answer(code, kind) == [code |-> code, kind |-> kind]

\* the handler returns
Done(th, resp) == [th EXCEPT !.pc = "done", !.resp = <<resp>>]

\* graph_data after push_commit has put the commit, its change record and
\* the head into it
WithCommit(graph_data, d, hashes, changes) ==
    LET head == AdvanceHead(graph_data.HEAD, d.id, d.parent_id)
    IN  [graph_data EXCEPT
            !.order = IF d.id \in Range(@) THEN @ ELSE Append(@, d.id),
            !.commits = Put(@, d.id, CommitData(d, hashes)),
            !.changes = Put(@, d.id, changes),
            !.HEAD = head,
            !.main = IF head = graph_data.HEAD THEN @ ELSE head]

\* json.dump(graph_data, f): graph.json holds graph_data and nothing else
WriteGraph(r, graph_data) ==
    [r EXCEPT !.order = graph_data.order, !.commits = graph_data.commits,
              !.changes = graph_data.changes, !.HEAD = graph_data.HEAD,
              !.main = graph_data.main]

ConcInit ==
    /\ impl \in Implementations
    /\ gdb = IF impl = "graph_db"
             THEN [base |-> TRUE,
                   repos |-> [d \in Dirs |->
                       IF d = get_repo_path(TargetName) THEN CreateRepoG(NoRepoG)
                       ELSE IF d = get_repo_path(PullSource)
                       THEN PushG(NoRepoG, SourceCommit).repo
                       ELSE NoRepoG]]
             ELSE [base |-> TRUE, repos |-> [d \in Dirs |-> NoRepoG]]
    /\ sql = IF impl = "sqlite_fs"
             THEN [base |-> TRUE,
                   repos |-> [d \in Dirs |->
                       IF d = get_repo_path(TargetName) THEN CreateRepoS(NoRepoS)
                       ELSE IF d = get_repo_path(PullSource)
                       THEN PushS(NoRepoS, SourceCommit).repo
                       ELSE NoRepoS]]
             ELSE [base |-> TRUE, repos |-> [d \in Dirs |-> NoRepoS]]
    /\ last = Response("init", <<>>, <<>>, None, 200, "init", 0, 0, FALSE)
    /\ npush = 0
    /\ open = TRUE
    /\ threads = [t \in Threads |-> Idle]
    /\ torn = {}

\* push_commit up to its first test: graph_db makes the repository if its
\* directory is not there and loads graph.json into graph_data, sqlite_fs
\* selects the commit and its parent
PushBegin(t, d) ==
    /\ threads[t].pc = "idle"
    /\ LET k == get_repo_path(TargetName)
           th == [threads[t] EXCEPT !.op = "push", !.req = <<d>>]
           r0 == gdb.repos[k]
           r1 == IF ~r0.dir THEN init_repo_graph(get_objects_dir(r0)) ELSE r0
       IN  IF impl = "graph_db"
           THEN /\ gdb' = SetRepo(gdb, k, r1)
                /\ threads' = [threads EXCEPT ![t] =
                       IF k \in torn \/ ~r1.graph THEN Done(th, Answer(500, "error"))
                       ELSE IF CommitExists(r1.commits, d.id)
                       THEN Done(th, Answer(200, "exists"))
                       ELSE [th EXCEPT !.pc = "loaded", !.mem = r1]]
           ELSE /\ UNCHANGED gdb
                /\ threads' = [threads EXCEPT ![t] =
                       IF CommitExists(sql.repos[k].commits, d.id)
                       THEN Done(th, Answer(200, "exists"))
                       ELSE IF ParentRejected(sql.repos[k], d.parent_id)
                       THEN Done(th, Answer(400, "no_parent"))
                       ELSE [th EXCEPT !.pc = "checked"]]
    /\ UNCHANGED <<impl, sql, last, npush, open, torn>>

\* graph_db push_commit from store_object to the update of graph_data;
\* calculate_changes loads graph.json once more
PushStore(t) ==
    /\ threads[t].pc = "loaded"
    /\ LET k == get_repo_path(TargetName)
           d == threads[t].req[1]
           hashes == FilesHashes(d.files)
           r == StoreFiles(gdb.repos[k], d.files, DOMAIN d.files)
       IN  /\ gdb' = SetRepo(gdb, k, r)
           /\ threads' = [threads EXCEPT ![t] =
                  IF k \in torn \/ ~r.graph \/ ChangesRaiseG(r, d.parent_id, hashes)
                  THEN Done(@, Answer(500, "error"))
                  ELSE [@ EXCEPT
                           !.pc = "computed",
                           !.mem = WithCommit(@, d, hashes,
                                       calculate_changes_g(r, d.parent_id, hashes)),
                           !.ids = {d.id}]]
    /\ UNCHANGED <<impl, sql, last, npush, open, torn>>

\* graph_db pull_commits from the load of both graphs to the end of its
\* loop, which copies the objects and fills target_graph_data
PullBegin(t) ==
    /\ threads[t].pc = "idle"
    /\ impl = "graph_db"
    /\ LET k == get_repo_path(TargetName)
           ks == get_repo_path(PullSource)
           th == [threads[t] EXCEPT !.op = "pull"]
           src == gdb.repos[ks]
           tgt == IF ~gdb.repos[k].graph THEN CreateRepoG(gdb.repos[k])
                  ELSE gdb.repos[k]
           st == PullLoopG(src, CommitOrder(src), 1, PullStateG(tgt))
       IN  IF k \in torn \/ ks \in torn \/ ~tgt.graph
           THEN /\ threads' = [threads EXCEPT ![t] = Done(th, Answer(500, "error"))]
                /\ UNCHANGED gdb
           ELSE /\ gdb' = SetRepo(gdb, k, [tgt EXCEPT
                                              !.dir = st.disk.dir,
                                              !.objects = st.disk.objects])
                /\ threads' = [threads EXCEPT ![t] =
                       IF st.raised THEN Done(th, Answer(500, "error"))
                       ELSE [th EXCEPT !.pc = "computed", !.mem = st.mem,
                                       !.ids = Range(st.added)]]
    /\ UNCHANGED <<impl, sql, last, npush, open, torn>>

\* open(graph_db_path, 'w') empties graph.json, or makes it if it is not
\* there, and fails if the directory is not there
GraphOpen(t) ==
    /\ threads[t].pc = "computed"
    /\ LET k == get_repo_path(TargetName)
       IN  IF ~gdb.repos[k].dir
           THEN /\ threads' = [threads EXCEPT ![t] = Done(@, Answer(500, "error"))]
                /\ UNCHANGED <<gdb, torn>>
           ELSE /\ gdb' = SetRepo(gdb, k, init_repo_graph(gdb.repos[k]))
                /\ torn' = torn \cup {k}
                /\ threads' = [threads EXCEPT ![t].pc = "opened",
                                              ![t].over = FALSE,
                                              ![t].gone = FALSE]
    /\ UNCHANGED <<impl, sql, last, npush, open>>

\* json.dump and the close of the file: graph_data is written from the
\* start of the file. Where another handler has dumped since this one
\* opened the file, the bytes behind this handler's graph_data stay, and
\* the file is JSON only if this handler's text is not the shorter one.
\* A file that has been unlinked since takes the text and is no file of the
\* directory.
GraphDump(t) ==
    /\ threads[t].pc = "opened"
    /\ \E clean \in BOOLEAN :
           LET k == get_repo_path(TargetName)
               th == threads[t]
               reply == Answer(200, IF th.op = "push" THEN "pushed" ELSE "pulled")
           IN  /\ (~th.over \/ th.gone) => clean
               /\ IF th.gone
                  THEN /\ UNCHANGED <<gdb, torn>>
                       /\ threads' = [threads EXCEPT ![t] = Done(th, reply)]
                  ELSE /\ gdb' = IF clean
                                 THEN SetRepo(gdb, k, WriteGraph(gdb.repos[k], th.mem))
                                 ELSE gdb
                       /\ torn' = IF clean THEN torn \ {k} ELSE torn \cup {k}
                       /\ threads' = [u \in Threads |->
                              IF u = t THEN Done(th, reply)
                              ELSE IF threads[u].pc = "opened" /\ ~threads[u].gone
                              THEN [threads[u] EXCEPT !.over = TRUE]
                              ELSE threads[u]]
    /\ UNCHANGED <<impl, sql, last, npush, open>>

\* sqlite_fs push_commit from its first INSERT to conn.commit(): one
\* transaction, which fails on the primary key if the id has been inserted
\* since the SELECT
SqlCommit(t) ==
    /\ threads[t].pc = "checked"
    /\ LET k == get_repo_path(TargetName)
           d == threads[t].req[1]
       IN  IF CommitExists(sql.repos[k].commits, d.id)
           THEN /\ threads' = [threads EXCEPT ![t] = Done(@, Answer(500, "error"))]
                /\ UNCHANGED sql
           ELSE /\ sql' = SetRepo(sql, k, PushS(sql.repos[k], d).repo)
                /\ threads' = [threads EXCEPT ![t] =
                       Done([@ EXCEPT !.ids = {d.id}], Answer(200, "pushed"))]
    /\ UNCHANGED <<impl, gdb, last, npush, open, torn>>

\* the read operations
Readers == {"get_commits", "get_commit", "check_commit", "file_history"}

\* what a read operation answers from a store in which graph.json is whole
Views(op, g, q, id) ==
    IF impl = "graph_db"
    THEN {CASE op = "get_commits" -> get_commits_g(g, TargetName)
            [] op = "get_commit" -> get_commit_g(g, TargetName, id)
            [] op = "check_commit" -> check_commit_g(g, TargetName, id)
            [] OTHER -> get_commit_history_g(g, TargetName, "f")}
    ELSE CASE op = "get_commits" -> get_commits_s(q, TargetName)
           [] op = "get_commit" -> {get_commit_s(q, TargetName, id)}
           [] op = "check_commit" -> {check_commit_s(q, TargetName, id)}
           [] OTHER -> get_commit_history_s(q, TargetName, "f")

\* a read operation: one json.load of graph.json, which raises on a file
\* that is not JSON, or the SELECTs of one connection
ReadRequest(t, op, id) ==
    /\ threads[t].pc = "idle"
    /\ \E resp \in IF impl = "graph_db" /\ get_repo_path(TargetName) \in torn
                   THEN {Answer(500, "error")}
                   ELSE Views(op, gdb, sql, id) :
           threads' = [threads EXCEPT ![t] =
                          Done([@ EXCEPT !.op = op, !.id = id], resp)]
    /\ UNCHANGED <<impl, gdb, sql, last, npush, open, torn>>

ConcNext ==
    \/ \E t \in Threads : \E d \in DescriptorsFor(impl, TargetName) : PushBegin(t, d)
    \/ \E t \in Threads : PushStore(t)
    \/ \E t \in Threads : PullBegin(t)
    \/ \E t \in Threads : GraphOpen(t)
    \/ \E t \in Threads : GraphDump(t)
    \/ \E t \in Threads : SqlCommit(t)
    \/ \E t \in Threads : \E op \in Readers : \E id \in Ids : ReadRequest(t, op, id)

ConcSpec == ConcInit /\ [][ConcNext]_vars

----------------------------------------------------------------------------
(* Faults. Every handler runs its file and database accesses inside        *)
(* try/except Exception and answers 500 on any exception: an OSError or    *)
(* sqlite3.Error (a full disk, a failing device) can end a push or a pull  *)
(* at each of its accesses, also inside json.dump, when graph.json has     *)
(* been emptied by open(graph_db_path, 'w') and is not yet written.        *)

\* the handler's next access raises: it answers 500; what it has written
\* so far stays, and a sqlite_fs transaction that is not committed is
\* rolled back
Fault(t) ==
    /\ threads[t].pc \in {"loaded", "computed", "opened", "checked"}
    /\ threads' = [threads EXCEPT ![t] = Done(@, Answer(500, "error"))]
    /\ UNCHANGED <<impl, gdb, sql, last, npush, open, torn>>

FaultNext ==
    \/ ConcNext
    \/ \E t \in Threads : Fault(t)

FaultSpec == ConcInit /\ [][FaultNext]_vars

----------------------------------------------------------------------------
(* delete_repo beside a push or a pull on the same graph_db repository.    *)
(* shutil.rmtree lists the entries of the repository directory, removes    *)
(* them one after the other in the order of the listing, which the file    *)
(* system chooses, and removes the directory last; rmdir fails on a        *)
(* directory that is not empty. Repository a holds one commit when the     *)
(* requests arrive.                                                        *)

RaceInit ==
    /\ impl = "graph_db"
    /\ gdb = [base |-> TRUE,
              repos |-> [d \in Dirs |->
                  IF d \in {get_repo_path(TargetName), get_repo_path(PullSource)}
                  THEN PushG(NoRepoG, SourceCommit).repo
                  ELSE NoRepoG]]
    /\ sql = [base |-> TRUE, repos |-> [d \in Dirs |-> NoRepoS]]
    /\ last = Response("init", <<>>, <<>>, None, 200, "init", 0, 0, FALSE)
    /\ npush = 0
    /\ open = TRUE
    /\ threads = [t \in Threads |-> Idle]
    /\ torn = {}

\* delete_repo up to rmtree's listing of the directory; ids holds the
\* entries that rmtree has still to remove
DeleteBegin(t) ==
    /\ threads[t].pc = "idle"
    /\ impl = "graph_db"
    /\ \A u \in Threads : threads[u].op # "delete"
    /\ LET k == get_repo_path(TargetName)
           th == [threads[t] EXCEPT !.op = "delete"]
       IN  threads' = [threads EXCEPT ![t] =
               IF ~gdb.repos[k].dir THEN Done(th, Answer(404, "not_found"))
               ELSE [th EXCEPT !.pc = "listed",
                               !.ids = {"objects"} \cup
                                       (IF gdb.repos[k].graph THEN {"graph.json"}
                                        ELSE {})]]
    /\ UNCHANGED <<impl, gdb, sql, last, npush, open, torn>>

\* rmtree removes the objects directory and all it holds
RemoveObjects(t) ==
    /\ threads[t].pc = "listed" /\ "objects" \in threads[t].ids
    /\ LET k == get_repo_path(TargetName)
       IN  gdb' = [gdb EXCEPT !.repos[k].objects = EmptyMap]
    /\ threads' = [threads EXCEPT ![t].ids = @ \ {"objects"}]
    /\ UNCHANGED <<impl, sql, last, npush, open, torn>>

\* rmtree unlinks graph.json; a handler that has the file open goes on
\* writing to it
RemoveGraph(t) ==
    /\ threads[t].pc = "listed" /\ "graph.json" \in threads[t].ids
    /\ LET k == get_repo_path(TargetName)
       IN  /\ gdb' = [gdb EXCEPT !.repos[k] =
                         [NoRepoG EXCEPT !.dir = TRUE, !.objects = gdb.repos[k].objects]]
           /\ torn' = torn \ {k}
    /\ threads' = [u \in Threads |->
           IF u = t THEN [threads[u] EXCEPT !.ids = @ \ {"graph.json"}]
           ELSE IF threads[u].pc = "opened" THEN [threads[u] EXCEPT !.gone = TRUE]
           ELSE threads[u]]
    /\ UNCHANGED <<impl, sql, last, npush, open>>

\* rmtree's rmdir of the repository directory, and the response
RemoveDir(t) ==
    /\ threads[t].pc = "listed" /\ threads[t].ids = {}
    /\ LET k == get_repo_path(TargetName)
           r == gdb.repos[k]
       IN  IF r.graph \/ r.objects # EmptyMap
           THEN /\ threads' = [threads EXCEPT ![t] = Done(@, Answer(500, "error"))]
                /\ UNCHANGED gdb
           ELSE /\ threads' = [threads EXCEPT ![t] = Done(@, Answer(200, "deleted"))]
                /\ gdb' = RemoveTree(gdb, k, NoRepoG)
    /\ UNCHANGED <<impl, sql, last, npush, open, torn>>

RaceNext ==
    \/ \E t \in Threads : \E d \in DescriptorsFor(impl, TargetName) : PushBegin(t, d)
    \/ \E t \in Threads : PushStore(t)
    \/ \E t \in Threads : PullBegin(t)
    \/ \E t \in Threads : GraphOpen(t)
    \/ \E t \in Threads : GraphDump(t)
    \/ \E t \in Threads : DeleteBegin(t)
    \/ \E t \in Threads : RemoveObjects(t)
    \/ \E t \in Threads : RemoveGraph(t)
    \/ \E t \in Threads : RemoveDir(t)

RaceSpec == RaceInit /\ [][RaceNext]_vars

----------------------------------------------------------------------------
(* The two backends side by side: every request is sent to graph_db and to *)
(* sqlite_fs, with descriptors whose hashes are the SHA1 of the content.   *)
(* last.code holds the status of graph_db and last.m that of sqlite_fs.    *)

\* the commit ids, parent links, file hashes and change records of a
\* repository, in a form common to both backends
ContentG(r) ==
    [present |-> r.graph,
     commits |-> [c \in DOMAIN r.commits |->
                     [parent_id |-> r.commits[c].parent_id,
                      files |-> r.commits[c].files]],
     changes |-> [c \in DOMAIN r.changes |-> r.changes[c]]]

ContentS(r) ==
    [present |-> r.db,
     commits |-> [c \in DOMAIN r.commits |->
                     [parent_id |-> r.commits[c].parent_id,
                      files |-> [p \in DOMAIN r.files[c] |-> r.files[c][p].hash]]],
     changes |-> [c \in DOMAIN r.changes |-> r.changes[c]]]

\* the outcomes of one request agree: both succeed or both fail, and every
\* repository holds the same in both backends
Agree(g, gcode, q, qcode) ==
    /\ (gcode = 200) <=> (qcode = 200)
    /\ \A k \in Dirs : ContentG(g.repos[k]) = ContentS(q.repos[k])

\* the descriptors whose supplied hashes are right
HashedDescriptors == DescriptorsFor("graph_db", TargetName)

\* clone_repo of graph_db on validated names, no fault striking
CloneG(fs, ks, kt) ==
    LET fs1 == SetRepo(fs, ks, get_objects_dir(fs.repos[ks]))
        src == fs1.repos[ks]
    IN  IF ~src.dir \/ ~src.graph THEN [fs |-> fs1, code |-> 404, kind |-> "not_found"]
        ELSE IF fs1.repos[kt].dir
        THEN [fs |-> fs1, code |-> 400, kind |-> "target_exists"]
        ELSE [fs |-> SetRepo(fs1, kt, CloneCopyG(src, CreateRepoG(fs1.repos[kt]))),
              code |-> 200, kind |-> "cloned"]

\* clone_repo of sqlite_fs on validated names: create_repo, then pull_commits
CloneS(fs, ks, kt, order) ==
    IF ~fs.repos[ks].dir \/ ~fs.repos[ks].db
    THEN [fs |-> fs, code |-> 404, kind |-> "not_found"]
    ELSE IF fs.repos[kt].dir THEN [fs |-> fs, code |-> 400, kind |-> "target_exists"]
    ELSE LET reply == PullS(fs.repos[ks], CreateRepoS(fs.repos[kt]), order)
         IN  [fs |-> SetRepo(fs, kt, reply.repo), code |-> reply.code,
              kind |-> reply.kind]

PairInit ==
    /\ impl = "graph_db"
    /\ gdb = [base |-> TRUE, repos |-> [d \in Dirs |-> NoRepoG]]
    /\ sql = [base |-> TRUE, repos |-> [d \in Dirs |-> NoRepoS]]
    /\ last = Response("init", <<>>, <<>>, None, 200, "init", 0, 0, FALSE)
    /\ npush = 0
    /\ open = TRUE
    /\ threads = [t \in Threads |-> Idle]
    /\ torn = {}

\* the step of a request sent to both backends: the trees after it and the
\* two status codes (last.code: graph_db, last.m: sqlite_fs). The
\* comparison ends with the first request on which the backends differ.
Both(op, src, name, id, g, gcode, q, qcode) ==
    /\ gdb' = g
    /\ sql' = q
    /\ last' = Response(op, src, name, id, gcode, "both", 0, qcode, FALSE)
    /\ UNCHANGED <<impl, threads, torn>>
    /\ open' = ((g # gdb \/ q # sql) /\ Agree(g, gcode, q, qcode))

PairCreate(name) ==
    /\ Open
    /\ UNCHANGED npush
    /\ IF ~validate_repo_name(name)
       THEN Both("create", <<>>, name, None, gdb, 400, sql, 400)
       ELSE LET k == get_repo_path(name)
            IN  Both("create", <<>>, name, None,
                     SetRepo(gdb, k, CreateRepoG(gdb.repos[k])), 200,
                     SetRepo(sql, k, CreateRepoS(sql.repos[k])), 200)

PairPush(name, d) ==
    /\ Open
    /\ IF ~validate_repo_name(name)
       THEN /\ UNCHANGED npush
            /\ Both("push", <<>>, name, d.id, gdb, 400, sql, 400)
       ELSE LET k == get_repo_path(name)
                g == PushG(gdb.repos[k], d)
                q == PushS(sql.repos[k], d)
                pushed == g.kind = "pushed" \/ q.kind = "pushed"
            IN  /\ pushed => npush < MaxPush
                /\ npush' = IF pushed THEN npush + 1 ELSE npush
                /\ Both("push", <<>>, name, d.id,
                        SetRepo(gdb, k, g.repo), g.code,
                        SetRepo(sql, k, q.repo), q.code)

PairPull(source_repo, target_repo) ==
    /\ Open
    /\ UNCHANGED npush
    /\ IF ~validate_repo_name(source_repo) \/ ~validate_repo_name(target_repo)
       THEN Both("pull", source_repo, target_repo, None, gdb, 400, sql, 400)
       ELSE LET ks == get_repo_path(source_repo)
                kt == get_repo_path(target_repo)
                g == PullG(gdb.repos[ks], gdb.repos[kt])
            IN  \E order \in AscendingOrders(sql.repos[ks]) :
                    LET q == PullS(sql.repos[ks], sql.repos[kt], order)
                    IN  Both("pull", source_repo, target_repo, None,
                             IF gdb.repos[ks].graph THEN SetRepo(gdb, kt, g.repo)
                             ELSE gdb,
                             IF gdb.repos[ks].graph THEN g.code ELSE 404,
                             IF sql.repos[ks].db THEN SetRepo(sql, kt, q.repo)
                             ELSE sql,
                             IF sql.repos[ks].db THEN q.code ELSE 404)

PairClone(source_repo, target_repo) ==
    /\ Open
    /\ UNCHANGED npush
    /\ IF ~validate_repo_name(source_repo) \/ ~validate_repo_name(target_repo)
       THEN Both("clone", source_repo, target_repo, None, gdb, 400, sql, 400)
       ELSE LET ks == get_repo_path(source_repo)
                kt == get_repo_path(target_repo)
                g == CloneG(gdb, ks, kt)
            IN  \E order \in AscendingOrders(sql.repos[ks]) :
                    LET q == CloneS(sql, ks, kt, order)
                    IN  Both("clone", source_repo, target_repo, None,
                             g.fs, g.code, q.fs, q.code)

PairDelete(repo_name) ==
    /\ Open
    /\ UNCHANGED npush
    /\ LET k == get_repo_path(repo_name)
       IN  Both("delete", <<>>, repo_name, None,
                IF DirExists(gdb, k) THEN RemoveTree(gdb, k, NoRepoG) ELSE gdb,
                IF DirExists(gdb, k) THEN 200 ELSE 404,
                IF DirExists(sql, k) THEN RemoveTree(sql, k, NoRepoS) ELSE sql,
                IF DirExists(sql, k) THEN 200 ELSE 404)

PairNext ==
    \/ \E name \in CheckedNames : PairCreate(name)
    \/ \E name \in CheckedNames : \E d \in HashedDescriptors : PairPush(name, d)
    \/ \E s \in SourceNames, t \in CheckedNames : PairPull(s, t)
    \/ \E s \in SourceNames, t \in CheckedNames : PairClone(s, t)
    \/ \E name \in Names : PairDelete(name)

PairSpec == PairInit /\ [][PairNext]_vars

----------------------------------------------------------------------------
(* calculate_changes on one path that the commit and its parent both hold, *)
(* over all contents of a few characters. last holds the two contents and  *)
(* then the change record.                                                 *)

\* the length of the contents
MaxLen == 3

DiffChars == {"a", "b", LF}

DiffContents == UNION {[1..n -> DiffChars] : n \in 0..MaxLen}

\* a stored file: the hash is that of the content
FileOf(content) == [hash |-> calculate_hash(content), content |-> content]

DiffInit ==
    /\ impl \in Implementations
    /\ gdb = [base |-> TRUE, repos |-> [d \in Dirs |-> NoRepoG]]
    /\ sql = [base |-> TRUE, repos |-> [d \in Dirs |-> NoRepoS]]
    /\ \E parent \in DiffContents, current \in DiffContents :
           last = [op |-> "files", parent |-> parent, current |-> current,
                   changes |-> EmptyMap]
    /\ npush = 0
    /\ open = TRUE
    /\ threads = [t \in Threads |-> Idle]
    /\ torn = {}

\* the loop of calculate_changes over all_paths
CalculateChanges ==
    /\ last.op = "files"
    /\ last' = [last EXCEPT
                   !.op = "changes",
                   !.changes = CompareFiles([p \in Paths |-> FileOf(last.parent)],
                                            [p \in Paths |-> FileOf(last.current)])]
    /\ UNCHANGED <<impl, gdb, sql, npush, open, threads, torn>>

DiffNext == CalculateChanges

DiffSpec == DiffInit /\ [][DiffNext]_vars

----------------------------------------------------------------------------
(* Properties                                                              *)

\* the repository that a validated name denotes, in each backend
RepoG(fs, name) == fs.repos[get_repo_path(name)]

RepoS(fs, name) == fs.repos[get_repo_path(name)]

\* the step is a push under a validated name
IsPushStep == last'.op = "push" /\ validate_repo_name(last'.name)

\* the commit ids of the repository of a validated name
CommitIds(name) ==
    IF impl = "graph_db" THEN DOMAIN RepoG(gdb, name).commits
    ELSE DOMAIN RepoS(sql, name).commits

\* C1: a push whose id is already a commit of the repository answers 200 and
\* leaves the whole store of the backend (commits, change records, blobs,
\* HEAD, of every repository) as it was, whatever the descriptor carries.
C1_DuplicatePushIsNoOp ==
    [][(IsPushStep /\ last'.id \in CommitIds(last'.name))
          => (last'.code = 200 /\ gdb' = gdb /\ sql' = sql)]_vars

\* a duplicate push whose descriptor differs from the recorded commit
C1_Witness ==
    /\ last.op = "push" /\ last.kind = "exists" /\ last.code = 200
    /\ last.differs
    /\ last.id \in CommitIds(last.name)

\* C2: in graph_db a push that records a new commit sets HEAD and main to
\* the new id exactly when HEAD was null or was the commit's parent_id;
\* otherwise HEAD and main stay, and the commit is recorded all the same.
C2_FastForwardRule ==
    [][(IsPushStep /\ impl = "graph_db" /\ last'.kind = "pushed")
          => LET r0 == RepoG(gdb, last'.name)
                 r1 == RepoG(gdb', last'.name)
                 id == last'.id
             IN  /\ id \in DOMAIN r1.commits
                 /\ id \in Range(r1.order)
                 /\ LET eligible == r0.HEAD = None
                                     \/ r0.HEAD = r1.commits[id].parent_id
                    IN  /\ (r1.HEAD = id /\ r1.main = id) <=> eligible
                        /\ ~eligible => (r1.HEAD = r0.HEAD /\ r1.main = r0.main)]_vars

\* a new commit was recorded and HEAD stayed on another commit
C2_Witness ==
    /\ impl = "graph_db" /\ last.op = "push" /\ last.kind = "pushed"
    /\ validate_repo_name(last.name)
    /\ last.id \in DOMAIN RepoG(gdb, last.name).commits
    /\ RepoG(gdb, last.name).HEAD \notin {None, last.id}

\* C3: over create, push, pull and clone the HEAD of a graph_db repository
\* changes only from null to a commit, or from a commit h to a commit whose
\* parent_id is h.
C3_HeadOnlyAdvances ==
    [][last'.op \in {"create", "push", "pull", "clone"}
          => \A k \in Dirs :
                LET r0 == gdb.repos[k]
                    r1 == gdb'.repos[k]
                IN  r1.HEAD # r0.HEAD
                       => /\ r1.HEAD \in DOMAIN r1.commits
                          /\ \/ r0.HEAD = None
                             \/ r1.commits[r1.HEAD].parent_id = r0.HEAD]_vars

\* a pull brought a commit into a target that had a HEAD, and the HEAD is
\* not the last commit of the target
C3_Witness ==
    /\ impl = "graph_db" /\ last.op = "pull" /\ last.kind = "pulled"
    /\ last.n = 1
    /\ LET r == RepoG(gdb, last.name)
       IN  /\ Len(r.order) = 2
           /\ r.HEAD = r.order[1]
           /\ r.commits[r.order[2]].parent_id # r.HEAD

\* every non-null parent_id of the commits names one of the commits
ParentsPresent(commits) ==
    \A c \in DOMAIN commits :
        commits[c].parent_id # None => commits[c].parent_id \in DOMAIN commits

\* C4, as stated: in every repository of either backend each commit with a
\* non-null parent_id has that parent among the commits of the repository.
C4_EveryParentPresent ==
    \A k \in Dirs : /\ ParentsPresent(gdb.repos[k].commits)
                     /\ ParentsPresent(sql.repos[k].commits)

\* C4, for the backend that checks the parent: in every sqlite_fs repository
\* each commit with a non-null parent_id has that parent among the commits
\* of the repository, after any pushes, pulls and clones.
C4_SqliteParentPresent ==
    \A k \in Dirs : ParentsPresent(sql.repos[k].commits)

\* a pull brought a commit and its parent into a sqlite_fs repository
C4_Witness ==
    /\ impl = "sqlite_fs" /\ last.op = "pull" /\ last.kind = "pulled"
    /\ last.n = 2
    /\ \E c \in DOMAIN RepoS(sql, last.name).commits :
           RepoS(sql, last.name).commits[c].parent_id # None

\* the commit reached from c by n parent links, None when the chain ends
RECURSIVE Ancestor(_, _, _)
Ancestor(commits, c, n) ==
    IF c \notin DOMAIN commits THEN None
    ELSE IF n = 0 THEN c
    ELSE Ancestor(commits, commits[c].parent_id, n - 1)

Acyclic(commits) ==
    \A c \in DOMAIN commits :
        \A n \in 1..Cardinality(DOMAIN commits) : Ancestor(commits, c, n) # c

\* C5: in every repository of either backend the parent links of the
\* commits form no cycle: no commit is its own parent or ancestor.
C5_ParentRelationAcyclic ==
    \A k \in Dirs : /\ Acyclic(gdb.repos[k].commits)
                     /\ Acyclic(sql.repos[k].commits)

\* C6: in every graph_db repository each blob hash of each commit's files
\* map has an object in the object store of that repository.
C6_ReferencedBlobsStored ==
    \A k \in Dirs :
        \A c \in DOMAIN gdb.repos[k].commits :
            \A p \in DOMAIN gdb.repos[k].commits[c].files :
                gdb.repos[k].commits[c].files[p] \in DOMAIN gdb.repos[k].objects

\* a pull stored a blob in the target under a hash that the source does
\* not use for it
C6_Witness ==
    /\ impl = "graph_db" /\ last.op = "pull" /\ last.kind = "pulled"
    /\ last.n > 0
    /\ \E c \in DOMAIN RepoG(gdb, last.name).commits :
           \E p \in DOMAIN RepoG(gdb, last.name).commits[c].files :
               /\ c \in DOMAIN RepoG(gdb, last.src).commits
               /\ RepoG(gdb, last.name).commits[c].files[p]
                      # RepoG(gdb, last.src).commits[c].files[p]

\* C7: every recorded file entry of either backend has for its hash the
\* SHA1 of its recorded content, whatever hash the descriptor carried.
C7_RecordedHashIsSha1 ==
    \A k \in Dirs :
        /\ \A c \in DOMAIN gdb.repos[k].commits :
               \A p \in DOMAIN gdb.repos[k].commits[c].files :
                   LET h == gdb.repos[k].commits[c].files[p]
                   IN  h \in DOMAIN gdb.repos[k].objects
                          => h = calculate_hash(gdb.repos[k].objects[h])
        /\ \A c \in DOMAIN sql.repos[k].files :
               \A p \in DOMAIN sql.repos[k].files[c] :
                   sql.repos[k].files[c][p].hash
                       = calculate_hash(sql.repos[k].files[c][p].content)

\* the stored copies of a content in a repository: object files in graph_db,
\* rows of table files in sqlite_fs
CopiesG(r, content) == {h \in DOMAIN r.objects : r.objects[h] = content}

CopiesS(r, content) ==
    {cp \in (DOMAIN r.files) \X Paths :
        /\ cp[2] \in DOMAIN r.files[cp[1]]
        /\ r.files[cp[1]][cp[2]].content = content}

\* C8: in every repository of either backend each content is stored at most
\* once, however many commits have a file with it.
C8_ContentStoredOnce ==
    \A k \in Dirs : \A content \in Contents \cup {ReadText(c) : c \in Contents} :
        /\ Cardinality(CopiesG(gdb.repos[k], content)) <= 1
        /\ Cardinality(CopiesS(sql.repos[k], content)) <= 1

\* the paths that differ between the files of a parent and of a commit,
\* each given as a map from path to hash
DifferingPaths(prev, cur) ==
    ((DOMAIN prev) \cup (DOMAIN cur))
        \ {p \in (DOMAIN prev) \cap (DOMAIN cur) : prev[p] = cur[p]}

HashesS(r, c) == [p \in DOMAIN r.files[c] |-> r.files[c][p].hash]

\* C9: in every repository of either backend, for every commit whose parent
\* is a commit of the repository, the paths of the commit's change record
\* are the paths of the parent's files and of the commit's files, less the
\* paths that both have with the same hash.
C9_ChangeSetComplete ==
    \A k \in Dirs :
        /\ LET r == gdb.repos[k]
           IN  \A c \in DOMAIN r.commits :
                   r.commits[c].parent_id \in DOMAIN r.commits
                      => /\ c \in DOMAIN r.changes
                         /\ DOMAIN r.changes[c]
                                = DifferingPaths(r.commits[r.commits[c].parent_id].files,
                                                 r.commits[c].files)
        /\ LET r == sql.repos[k]
           IN  \A c \in DOMAIN r.commits :
                   r.commits[c].parent_id \in DOMAIN r.commits
                      => /\ c \in DOMAIN r.changes
                         /\ DOMAIN r.changes[c]
                                = DifferingPaths(HashesS(r, r.commits[c].parent_id),
                                                 HashesS(r, c))

\* the files of commit id of a repository as a map from path to hash, empty
\* when the repository has no such commit
HashesAt(g, s, name, id) ==
    IF impl = "graph_db"
    THEN IF id \in DOMAIN RepoG(g, name).commits
         THEN RepoG(g, name).commits[id].files ELSE EmptyMap
    ELSE IF id \in DOMAIN RepoS(s, name).commits
         THEN HashesS(RepoS(s, name), id) ELSE EmptyMap

ChangesAt(g, s, name, id) ==
    IF impl = "graph_db" THEN RepoG(g, name).changes[id]
    ELSE RepoS(s, name).changes[id]

ParentAt(g, s, name, id) ==
    IF impl = "graph_db" THEN RepoG(g, name).commits[id].parent_id
    ELSE RepoS(s, name).commits[id].parent_id

\* C10: the change record that a push computes classifies every path: with
\* a null parent_id every file is added; else a path of the commit only is
\* added (no previous hash), a path of the parent only is deleted (no
\* current hash), a path of both with different hashes is modified (both
\* hashes, different), a path of both with one hash has no entry; and only
\* a modified entry has a diff.
C10_PushClassifiesEveryPath ==
    [][(IsPushStep /\ last'.kind = "pushed")
          => LET id == last'.id
                 par == ParentAt(gdb', sql', last'.name, id)
                 cur == HashesAt(gdb', sql', last'.name, id)
                 prev == IF par = None THEN EmptyMap
                         ELSE HashesAt(gdb, sql, last'.name, par)
                 ch == ChangesAt(gdb', sql', last'.name, id)
             IN  /\ last'.n = Cardinality(DOMAIN ch)
                 /\ par = None =>
                        /\ DOMAIN ch = DOMAIN cur
                        /\ \A p \in DOMAIN ch : ch[p].status = "added"
                 /\ \A p \in Paths :
                        IF p \in DOMAIN cur /\ p \notin DOMAIN prev
                        THEN /\ p \in DOMAIN ch
                             /\ ch[p].status = "added"
                             /\ ch[p].previous_hash = NoHash
                             /\ ch[p].current_hash = cur[p]
                        ELSE IF p \notin DOMAIN cur /\ p \in DOMAIN prev
                        THEN /\ p \in DOMAIN ch
                             /\ ch[p].status = "deleted"
                             /\ ch[p].previous_hash = prev[p]
                             /\ ch[p].current_hash = NoHash
                        ELSE IF p \in DOMAIN cur /\ cur[p] # prev[p]
                        THEN /\ p \in DOMAIN ch
                             /\ ch[p].status = "modified"
                             /\ ch[p].previous_hash = prev[p]
                             /\ ch[p].current_hash = cur[p]
                             /\ NoHash \notin {prev[p], cur[p]}
                        ELSE p \notin DOMAIN ch
                 /\ \A p \in DOMAIN ch :
                        ~ch[p].diff.null => ch[p].status = "modified"]_vars

\* a push recorded a modified path, with the lines of its diff
C10_Witness ==
    /\ last.op = "push" /\ last.kind = "pushed" /\ last.n = 1
    /\ validate_repo_name(last.name)
    /\ LET ch == ChangesAt(gdb, sql, last.name, last.id)
       IN  \E p \in DOMAIN ch : /\ ch[p].status = "modified"
                                 /\ ch[p].diff.hunk # <<>>

\* the step is a pull under validated names whose source is there
IsPullStep ==
    /\ last'.op = "pull"
    /\ validate_repo_name(last'.src) /\ validate_repo_name(last'.name)
    /\ IF impl = "graph_db" THEN RepoG(gdb, last'.src).graph
       ELSE RepoS(sql, last'.src).db

\* the commits of the repository of a validated name, in given stores
CommitsAt(g, s, name) ==
    IF impl = "graph_db" THEN RepoG(g, name).commits ELSE RepoS(s, name).commits

\* the chain of parents of c reaches a commit without parent inside commits
RECURSIVE ChainUnbroken(_, _, _)
ChainUnbroken(commits, c, fuel) ==
    IF c \notin DOMAIN commits THEN FALSE
    ELSE IF commits[c].parent_id = None THEN TRUE
    ELSE IF fuel = 0 THEN FALSE
    ELSE ChainUnbroken(commits, commits[c].parent_id, fuel - 1)

UnbrokenCommits(commits) ==
    {c \in DOMAIN commits :
        ChainUnbroken(commits, c, Cardinality(DOMAIN commits))}

\* what every target that was absent or empty and has since only been
\* pulled into from the source satisfies: its commits are commits of the
\* source with the same parent, each with an unbroken chain in the target
FedOnlyBy(src, tgt) ==
    /\ DOMAIN tgt \subseteq DOMAIN src
    /\ \A c \in DOMAIN tgt : tgt[c].parent_id = src[c].parent_id
    /\ DOMAIN tgt = UnbrokenCommits(tgt)

\* C11: repeated pulls from an unchanged source into a target that was
\* absent or empty come to a pull that reports pulled_count = 0, and then
\* the target has exactly the source commits whose chain of parents is
\* unbroken. A pull that changes nothing is followed only by pulls that
\* answer the same, so it must be that pull; and any pull that reports 0
\* must leave that set.
C11_PullConverges ==
    [][(IsPullStep /\ last'.src # last'.name
               /\ FedOnlyBy(CommitsAt(gdb, sql, last'.src),
                            CommitsAt(gdb, sql, last'.name)))
          => LET src == CommitsAt(gdb, sql, last'.src)
                 tgt == CommitsAt(gdb', sql', last'.name)
                 settled == last'.kind = "pulled" /\ last'.n = 0
             IN  /\ (gdb' = gdb /\ sql' = sql) => settled
                 /\ settled => DOMAIN tgt = UnbrokenCommits(src)]_vars

\* C12: one pull into an absent or empty target transfers every source
\* commit with an unbroken chain, whatever the timestamps: when every
\* commit of the source has an unbroken chain of parents in the source, the
\* target has as many commits as the source after the pull; and a pull into
\* a target that has every commit of such a source reports pulled_count = 0.
C12_OnePullTransfersAll ==
    [][(IsPullStep /\ last'.src # last'.name
               /\ LET src == CommitsAt(gdb, sql, last'.src)
                  IN  DOMAIN src = UnbrokenCommits(src))
          => LET src == CommitsAt(gdb, sql, last'.src)
                 tgt0 == CommitsAt(gdb, sql, last'.name)
                 tgt1 == CommitsAt(gdb', sql', last'.name)
             IN  /\ DOMAIN tgt0 = {}
                       => /\ last'.kind = "pulled"
                          /\ Cardinality(DOMAIN tgt1) = Cardinality(DOMAIN src)
                 /\ DOMAIN tgt0 = DOMAIN src
                       => last'.kind = "pulled" /\ last'.n = 0]_vars

\* the commits before position i of the sequence added
Before(added, i) == {added[j] : j \in 1..(i - 1)}

\* each commit of added has no parent, or a parent that was in the target
\* or was added before it
AddedAfterParent(src, tgt, added) ==
    \A i \in DOMAIN added :
        \/ src[added[i]].parent_id = None
        \/ src[added[i]].parent_id \in (DOMAIN tgt) \cup Before(added, i)

\* C13: a pull adds no commit before its parent: in every reachable state,
\* for every source and target, the loop of pull_commits puts into the
\* target only commits whose parent is null or already in the target at
\* that moment, so a target in which every parent_id names a commit of the
\* target is still so after the loop.
C13_PullKeepsParentsPresent ==
    \A t \in Dirs :
        /\ LET src == gdb.repos[<<"a">>]
               tgt == IF gdb.repos[t].graph THEN gdb.repos[t]
                      ELSE CreateRepoG(gdb.repos[t])
               st == PullLoopG(src, CommitOrder(src), 1, PullStateG(tgt))
           IN  (src.graph /\ tgt.graph)
                  => /\ AddedAfterParent(src.commits, tgt.commits, st.added)
                     /\ ParentsPresent(tgt.commits) => ParentsPresent(st.mem.commits)
        /\ LET src == sql.repos[<<"a">>]
               tgt == CreateRepoS(sql.repos[t])
           IN  src.db =>
                  \A order \in AscendingOrders(src) :
                      LET st == PullLoopS(src, order, 1, PullStateS(tgt))
                      IN  /\ AddedAfterParent(src.commits, tgt.commits, st.added)
                          /\ ParentsPresent(tgt.commits)
                                => ParentsPresent(st.repo.commits)

\* a pull left a commit of the source behind because its parent was not
\* yet in the target
C13_Witness ==
    /\ last.op = "pull" /\ last.kind = "pulled" /\ last.n = 1 /\ last.m = 0
    /\ last.src # last.name
    /\ validate_repo_name(last.src) /\ validate_repo_name(last.name)
    /\ Cardinality(DOMAIN CommitsAt(gdb, sql, last.src)) = 2
    /\ Cardinality(DOMAIN CommitsAt(gdb, sql, last.name)) = 1
    /\ \E c \in DOMAIN CommitsAt(gdb, sql, last.src) :
           /\ c \notin DOMAIN CommitsAt(gdb, sql, last.name)
           /\ CommitsAt(gdb, sql, last.src)[c].parent_id # None

\* the step is a clone under validated names that answered 200
IsCloneDone ==
    /\ last'.op = "clone" /\ last'.code = 200
    /\ validate_repo_name(last'.src) /\ validate_repo_name(last'.name)

\* C14: right after a successful clone the target has the logical state of
\* the source: the same commits (id, message, author, timestamp, parent_id,
\* file hashes), so the same get_commits, the same change records, the same
\* content of every file of every commit, and in graph_db the same HEAD and
\* branch main.
C14_CloneFidelity ==
    [][IsCloneDone
          => IF impl = "graph_db"
             THEN LET src == RepoG(gdb', last'.src)
                      tgt == RepoG(gdb', last'.name)
                  IN  /\ tgt.commits = src.commits
                      /\ tgt.changes = src.changes
                      /\ tgt.HEAD = src.HEAD /\ tgt.main = src.main
                      /\ get_commits_g(gdb', last'.name) = get_commits_g(gdb', last'.src)
                      /\ \A c \in DOMAIN src.commits :
                             get_commit_g(gdb', last'.name, c)
                                = get_commit_g(gdb', last'.src, c)
             ELSE LET src == RepoS(sql', last'.src)
                      tgt == RepoS(sql', last'.name)
                  IN  /\ tgt.commits = src.commits
                      /\ tgt.files = src.files
                      /\ tgt.changes = src.changes
                      /\ get_commits_s(sql', last'.name) = get_commits_s(sql', last'.src)
                      /\ \A c \in DOMAIN src.commits :
                             get_commit_s(sql', last'.name, c)
                                = get_commit_s(sql', last'.src, c)]_vars

\* the step is a clone under validated names
IsCloneStep ==
    /\ last'.op = "clone"
    /\ validate_repo_name(last'.src) /\ validate_repo_name(last'.name)

\* C15: a clone whose source does not exist, or whose target exists
\* already, returns an error and changes nothing: no directory, graph or
\* database of either name is created or modified.
C15_RefusedCloneChangesNothing ==
    [][(IsCloneStep /\ last'.kind \in {"not_found", "target_exists"})
          => (last'.code \in {400, 404} /\ gdb' = gdb /\ sql' = sql)]_vars

\* C16: a clone that fails after it has created the target removes the
\* target: after a clone that returns the error of a failed copy the target
\* name has no directory.
C16_FailedCloneRemovesTarget ==
    [][(IsCloneStep /\ last'.kind = "error")
          => IF impl = "graph_db" THEN ~RepoG(gdb', last'.name).dir
             ELSE ~RepoS(sql', last'.name).dir]_vars

\* a repository that has just been created: nothing in it
IsEmptyG(r) ==
    /\ r.dir /\ r.graph
    /\ r.commits = EmptyMap /\ r.changes = EmptyMap /\ r.order = <<>>
    /\ r.HEAD = None /\ r.main = None

IsEmptyS(r) ==
    /\ r.dir /\ r.db
    /\ r.commits = EmptyMap /\ r.changes = EmptyMap /\ r.files = EmptyMap

\* C17: create_repo on a valid name that has no repository (no graph.json,
\* no vcs.db) makes a repository with no commits, no change records, HEAD
\* null and branch main null; create_repo on a name whose repository exists
\* answers already-exists and changes nothing.
C17_CreateRepo ==
    [][(last'.op = "create" /\ validate_repo_name(last'.name))
          => LET absent == IF impl = "graph_db" THEN ~RepoG(gdb, last'.name).graph
                           ELSE ~RepoS(sql, last'.name).db
             IN  /\ last'.code = 200
                 /\ absent => IF impl = "graph_db"
                              THEN IsEmptyG(RepoG(gdb', last'.name))
                              ELSE IsEmptyS(RepoS(sql', last'.name))
                 /\ ~absent => /\ last'.kind = "exists"
                               /\ gdb' = gdb /\ sql' = sql]_vars

\* C18: after a delete_repo that answered 200 nothing of the repository is
\* left: its directory with commits, change records, blobs and HEAD is gone,
\* list_repos does not name it, get_commits and check_commit answer
\* repository-not-found, and creating it again gives an empty repository.
C18_DeleteRemovesAll ==
    [][(last'.op = "delete" /\ last'.code = 200)
          => LET name == last'.name
                 k == get_repo_path(name)
             IN  IF impl = "graph_db"
                 THEN /\ LookupG(gdb', name) = NoRepoG
                      /\ k \notin list_repos_g(gdb').names
                      /\ get_commits_g(gdb', name) = NotFound
                      /\ \A id \in Ids : check_commit_g(gdb', name, id).code = 404
                      /\ validate_repo_name(name)
                            => IsEmptyG(CreateRepoG(gdb'.repos[k]))
                 ELSE /\ LookupS(sql', name) = NoRepoS
                      /\ k \notin list_repos_s(sql').names
                      /\ get_commits_s(sql', name) = {NotFound}
                      /\ \A id \in Ids : check_commit_s(sql', name, id).code = 404
                      /\ validate_repo_name(name)
                            => IsEmptyS(CreateRepoS(sql'.repos[k]))]_vars

\* a repository under a valid name was deleted after commits were pushed,
\* and no commit is left
C18_Witness ==
    /\ last.op = "delete" /\ last.kind = "deleted"
    /\ validate_repo_name(last.name)
    /\ npush = MaxPush
    /\ \A k \in Dirs : /\ gdb.repos[k].commits = EmptyMap
                       /\ sql.repos[k].commits = EmptyMap

\* the names of the request of a step are all valid
NamesValid(resp) ==
    /\ validate_repo_name(resp.name)
    /\ resp.op \in {"pull", "clone"} => validate_repo_name(resp.src)

\* C19: every operation that takes a repository name rejects a name that
\* does not match ^[A-Za-z0-9_-]+$ and then reads or changes no repository:
\* a create, push, pull, clone or delete with such a name answers 400 and
\* leaves every repository as it was, and get_commits, get_commit,
\* check_commit and file_history under such a name answer from no
\* repository.
C19_InvalidNameRejected ==
    [][/\ (last'.op # "init" /\ ~NamesValid(last'))
            => (last'.code = 400 /\ gdb' = gdb /\ sql' = sql)
       /\ \A name \in {n \in Names : ~validate_repo_name(n)} :
            IF impl = "graph_db"
            THEN /\ get_commits_g(gdb', name).code # 200
                 /\ \A p \in Paths : get_commit_history_g(gdb', name, p).code # 200
                 /\ \A id \in Ids : /\ get_commit_g(gdb', name, id).code # 200
                                     /\ check_commit_g(gdb', name, id).code # 200
            ELSE /\ \A resp \in get_commits_s(sql', name) : resp.code # 200
                 /\ \A p \in Paths :
                        \A resp \in get_commit_history_s(sql', name, p) : resp.code # 200
                 /\ \A id \in Ids : /\ get_commit_s(sql', name, id).code # 200
                                     /\ check_commit_s(sql', name, id).code # 200]_vars

\* the response of push_commit to descriptor d, and the tree after it
PushReply(name, d) ==
    IF impl = "graph_db" THEN PushG(RepoG(gdb, name), d)
    ELSE PushS(RepoS(sql, name), d)

\* C20: after a push that records a new commit under a valid name,
\* check_commit says that the commit exists, and get_commit returns the
\* pushed message, author, timestamp and parent_id and, for every pushed
\* path, exactly the pushed content. Stated of every push that a reachable
\* state admits.
C20_PushThenRead ==
    npush < MaxPush =>
        \A name \in {n \in CheckedNames : validate_repo_name(n)} :
            \A d \in DescriptorsFor(impl, name) :
                LET reply == PushReply(name, d)
                    g == SetRepo(gdb, get_repo_path(name), reply.repo)
                    q == SetRepo(sql, get_repo_path(name), reply.repo)
                    check == IF impl = "graph_db" THEN check_commit_g(g, name, d.id)
                             ELSE check_commit_s(q, name, d.id)
                    got == IF impl = "graph_db" THEN get_commit_g(g, name, d.id)
                           ELSE get_commit_s(q, name, d.id)
                IN  reply.kind = "pushed"
                       => /\ check.code = 200 /\ check.exists
                          /\ got.code = 200
                          /\ got.message = d.message /\ got.author = d.author
                          /\ got.timestamp = d.timestamp
                          /\ got.parent_id = d.parent_id
                          /\ DOMAIN got.files = DOMAIN d.files
                          /\ \A p \in DOMAIN d.files :
                                 got.files[p].content = d.files[p].content

\* C21: no acknowledged write is lost in a graph_db repository. Once the
\* overlapping requests have all returned, every commit that a push or a
\* pull answered 200 for having added is in the repository.
C21_NoAcknowledgedWriteLost ==
    (impl = "graph_db" /\ \A t \in Threads : threads[t].pc \in {"idle", "done"})
        => \A t \in Threads :
               (/\ threads[t].pc = "done"
                /\ threads[t].op \in {"push", "pull"}
                /\ threads[t].resp[1].code = 200)
                   => threads[t].ids \subseteq DOMAIN RepoG(gdb, TargetName).commits

\* the step is the answer of a read operation of thread t
IsReadStep(t) ==
    /\ threads[t].pc = "idle"
    /\ threads'[t].pc = "done"
    /\ threads'[t].op \in Readers

\* C22: a read operation that runs while a push or a pull writes answers
\* from the repository as the last complete write left it or as the write
\* in progress will leave it, never from an empty or truncated graph, and
\* every file of a commit that it shows has its content (both backends).
C22_ReadersSeeWholeStates ==
    [][\A t \in Threads :
          IsReadStep(t) =>
              LET resp == threads'[t].resp[1]
                  whole == Views(threads'[t].op, gdb, sql, threads'[t].id)
                          \cup UNION {Views(threads'[t].op,
                                     SetRepo(gdb, get_repo_path(TargetName),
                                         WriteGraph(RepoG(gdb, TargetName),
                                                    threads[u].mem)),
                                     sql, threads'[t].id) :
                                 u \in {v \in Threads : threads[v].pc = "opened"}}
              IN  /\ resp \in whole
                  /\ (threads'[t].op = "get_commit" /\ resp.code = 200)
                        => \A p \in DOMAIN resp.files :
                               resp.files[p].content # NoContent]_vars

\* C23: the two backends behave alike. Sent the same requests, with
\* descriptors whose hashes are the SHA1 of the content, they answer every
\* request with the same success or failure and hold the same commit ids,
\* parent links, file hashes and change records in every repository.
C23_BackendsAgree ==
    last.op # "init" => Agree(gdb, last.code, sql, last.m)

\* the validated names of the model
ValidNames == {n \in CheckedNames : validate_repo_name(n)}

\* C24: in sqlite_fs a push of a new commit whose parent_id is non-null and
\* is no commit of the repository is answered 400, parent not found, and
\* has no effect at all: no commit, file or change row, and no repository
\* made by the rejected push. Stated of every such push that a reachable
\* state admits.
C24_RejectedPushHasNoEffect ==
    impl = "sqlite_fs" =>
        \A name \in ValidNames : \A d \in DescriptorsFor(impl, name) :
            LET r == RepoS(sql, name)
                reply == PushS(r, d)
            IN  (/\ d.parent_id # None
                 /\ d.parent_id \notin DOMAIN r.commits
                 /\ d.id \notin DOMAIN r.commits)
                    => /\ reply.code = 400
                       /\ reply.kind = "no_parent"
                       /\ reply.repo = r

\* C25: whenever HEAD is non-null in a graph_db repository, no commit of the
\* repository has the HEAD commit as its parent_id.
C25_HeadIsTip ==
    impl = "graph_db" =>
        \A k \in Dirs :
            (gdb.repos[k].graph /\ gdb.repos[k].HEAD # None)
                => \A c \in DOMAIN gdb.repos[k].commits :
                       gdb.repos[k].commits[c].parent_id # gdb.repos[k].HEAD

\* the list shows every commit once, each with its own timestamp, the
\* timestamps descending
ListsAllSorted(body, commits) ==
    /\ Len(body) = Cardinality(DOMAIN commits)
    /\ {body[i].id : i \in DOMAIN body} = DOMAIN commits
    /\ \A i \in DOMAIN body : body[i].timestamp = commits[body[i].id].timestamp
    /\ \A i, j \in DOMAIN body : i < j => body[i].timestamp >= body[j].timestamp

\* C26: get_commits returns every commit of the repository exactly once,
\* ordered by timestamp descending (both backends).
C26_GetCommitsSorted ==
    \A name \in ValidNames :
        IF impl = "graph_db"
        THEN RepoG(gdb, name).graph
                => LET resp == get_commits_g(gdb, name)
                   IN  /\ resp.code = 200
                       /\ ListsAllSorted(resp.body, RepoG(gdb, name).commits)
        ELSE RepoS(sql, name).db
                => \A resp \in get_commits_s(sql, name) :
                       /\ resp.code = 200
                       /\ ListsAllSorted(resp.body, RepoS(sql, name).commits)

\* a graph_db repository whose commits were inserted in ascending order of
\* timestamp, so that the sort has to reverse them
C26_Witness ==
    /\ impl = "graph_db"
    /\ last.op = "push"
    /\ \E name \in ValidNames :
           LET r == RepoG(gdb, name)
           IN  /\ Len(r.order) = 2
               /\ r.commits[r.order[1]].timestamp < r.commits[r.order[2]].timestamp

\* the files of commit c, path to hash, in either backend
HashesOf(name, c) ==
    IF impl = "graph_db" THEN RepoG(gdb, name).commits[c].files
    ELSE [p \in DOMAIN RepoS(sql, name).files[c] |-> RepoS(sql, name).files[c][p].hash]

\* path p is the same in commit c and in its parent, which is present
UnchangedIn(name, c, p) ==
    LET commits == CommitsAt(gdb, sql, name)
        parent_id == commits[c].parent_id
    IN  /\ parent_id \in DOMAIN commits
        /\ p \in DOMAIN HashesOf(name, c)
        /\ p \in DOMAIN HashesOf(name, parent_id)
        /\ HashesOf(name, c)[p] = HashesOf(name, parent_id)[p]

\* the history of path p shows the commits whose change record has p, once
\* each, by descending timestamp, with the status and hashes of the record
\* and a diff only where the status is modified, and no commit in which p
\* is unchanged
HistoryRight(name, p, body, commits, changes) ==
    /\ {body[i].commit_id : i \in DOMAIN body}
           = {c \in DOMAIN commits : c \in DOMAIN changes /\ p \in DOMAIN changes[c]}
    /\ \A i, j \in DOMAIN body : i # j => body[i].commit_id # body[j].commit_id
    /\ \A i, j \in DOMAIN body : i < j => body[i].timestamp >= body[j].timestamp
    /\ \A i \in DOMAIN body :
           LET c == body[i].commit_id
           IN  /\ body[i].timestamp = commits[c].timestamp
               /\ body[i].status = changes[c][p].status
               /\ body[i].previous_hash = changes[c][p].previous_hash
               /\ body[i].current_hash = changes[c][p].current_hash
               /\ body[i].diff = IF body[i].status = "modified"
                                 THEN changes[c][p].diff ELSE NoDiff
               /\ ~UnchangedIn(name, c, p)

\* C27: file_history(repo, path) returns exactly the commits whose change
\* record contains path and none of the commits in which the path was
\* unchanged, ordered by commit timestamp descending, each with its status
\* and hashes and with a diff only when the status is modified.
C27_FileHistory ==
    \A name \in ValidNames : \A p \in Paths :
        IF impl = "graph_db"
        THEN RepoG(gdb, name).graph
                => LET resp == get_commit_history_g(gdb, name, p)
                   IN  /\ resp.code = 200
                       /\ HistoryRight(name, p, resp.body, RepoG(gdb, name).commits,
                                       RepoG(gdb, name).changes)
        ELSE RepoS(sql, name).db
                => \A resp \in get_commit_history_s(sql, name, p) :
                       /\ resp.code = 200
                       /\ HistoryRight(name, p, resp.body, RepoS(sql, name).commits,
                                       RepoS(sql, name).changes)

NoDuplicates(seq) == \A i, j \in DOMAIN seq : i # j => seq[i] # seq[j]

\* C30: the visitation order that the graph_db pull computes over a source
\* lists every commit of the source exactly once and nothing else, and
\* lists each commit after its parent, for every source that pushes reach.
C30_VisitationOrder ==
    impl = "graph_db" =>
        \A k \in Dirs :
            gdb.repos[k].graph
                => LET src == gdb.repos[k]
                       order == CommitOrder(src)
                   IN  /\ Range(order) = DOMAIN src.commits
                       /\ NoDuplicates(order)
                       /\ \A i, j \in DOMAIN order :
                              (/\ order[j] \in DOMAIN src.commits
                               /\ src.commits[order[j]].parent_id = order[i]
                               /\ i # j)
                                  => i < j

\* a content as the claim sees it: its lines, and whether the last line is
\* terminated
Terminated(content) == content # <<>> /\ content[Len(content)] = LF

RECURSIVE JoinLines(_)
JoinLines(lines) ==
    IF lines = <<>> THEN <<>>
    ELSE IF Len(lines) = 1 THEN lines[1]
    ELSE lines[1] \o <<LF>> \o JoinLines(Tail(lines))

Rebuild(lines, terminated) ==
    JoinLines(lines) \o (IF terminated THEN <<LF>> ELSE <<>>)

\* the lines after the diff is applied to the lines of the parent: an empty
\* diff leaves them, a hunk gives its context lines and its added lines; the
\* termination of the last line, of which the diff says nothing, stays
ApplyDiff(lines, diff) ==
    IF diff.hunk = <<>> THEN lines
    ELSE LET kept == SelectSeq(diff.hunk, LAMBDA e : e[1] \in {" ", "+"})
         IN  [i \in DOMAIN kept |-> kept[i][2]]

\* C28: for every modified entry of a change record, applying the stored
\* diff to the parent's content of the path reproduces the commit's content
\* of the path exactly, for all pairs of contents with different hashes.
C28_DiffRoundTrip ==
    last.op = "changes" =>
        \A p \in DOMAIN last.changes :
            last.changes[p].status = "modified"
                => Rebuild(ApplyDiff(splitlines(last.parent), last.changes[p].diff),
                           Terminated(last.parent)) = last.current

\* the place of the commit in the visitation order
Position(order, commit_id) == CHOOSE i \in DOMAIN order : order[i] = commit_id

\* the commits that the step added to the repository of the name
AddedBy(name) ==
    DOMAIN CommitsAt(gdb', sql', name) \ DOMAIN CommitsAt(gdb, sql, name)

\* C31: a graph_db pull that answers 200 leaves a non-null HEAD of the
\* target, and main with it, as they were, and gives a target whose HEAD
\* was null the first commit it inserts as HEAD and main (none if it
\* inserts nothing).
C31_PullSetsHeadOnlyWhenNull ==
    [][(IsPullStep /\ impl = "graph_db" /\ last'.code = 200)
          => LET src == RepoG(gdb, last'.src)
                 t0 == RepoG(gdb, last'.name)
                 t1 == RepoG(gdb', last'.name)
                 new == AddedBy(last'.name)
                 order == CommitOrder(src)
             IN  IF t0.HEAD # None
                 THEN t1.HEAD = t0.HEAD /\ t1.main = t0.main
                 ELSE IF new = {}
                 THEN t1.HEAD = None /\ t1.main = None
                 ELSE /\ t1.HEAD \in new
                      /\ \A c \in new :
                             Position(order, t1.HEAD) <= Position(order, c)
                      /\ t1.main = t1.HEAD]_vars

\* a pull has brought a child of the target's HEAD into the target, and the
\* HEAD is still the parent
C31_Witness ==
    /\ impl = "graph_db" /\ last.op = "pull" /\ last.code = 200
    /\ last.n = 1 /\ last.m = 1
    /\ LET r == RepoG(gdb, last.name)
       IN  /\ r.HEAD # None
           /\ \E c \in DOMAIN r.commits :
                  c # r.HEAD /\ r.commits[c].parent_id = r.HEAD

\* a pull into a target without HEAD has inserted two commits
C31_WitnessNull ==
    /\ impl = "graph_db" /\ last.op = "pull" /\ last.code = 200
    /\ last.n = 2 /\ last.m = 0

\* C32: the counts of a pull that answers 200 are exact: pulled_commits is
\* the number of commits the pull added to the target, skipped_commits the
\* number of commits of the source that the target held before the pull,
\* and the two together are at most the number of commits of the source.
C32_PullCountsExact ==
    [][(IsPullStep /\ last'.code = 200)
          => LET s == DOMAIN CommitsAt(gdb, sql, last'.src)
                 t0 == DOMAIN CommitsAt(gdb, sql, last'.name)
             IN  /\ last'.n = Cardinality(AddedBy(last'.name))
                 /\ last'.m = Cardinality(s \cap t0)
                 /\ last'.n + last'.m <= Cardinality(s)]_vars

\* C33: a pull under validated names whose source repository is not there
\* answers 404 and changes nothing in either store.
C33_PullFromAbsentSource ==
    [][(/\ last'.op = "pull"
        /\ validate_repo_name(last'.src) /\ validate_repo_name(last'.name)
        /\ IF impl = "graph_db" THEN ~RepoG(gdb, last'.src).graph
           ELSE ~RepoS(sql, last'.src).db)
          => /\ last'.code = 404 /\ last'.kind = "not_found"
             /\ gdb' = gdb /\ sql' = sql]_vars

\* a pull was refused for its source, the target holding commits
C33_Witness ==
    /\ last.op = "pull" /\ last.code = 404
    /\ validate_repo_name(last.name)
    /\ DOMAIN CommitsAt(gdb, sql, last.name) # {}

\* a pull was refused for its source, the target not being there
C33_WitnessAbsent ==
    /\ last.op = "pull" /\ last.code = 404
    /\ validate_repo_name(last.name)
    /\ IF impl = "graph_db" THEN ~RepoG(gdb, last.name).dir
       ELSE ~RepoS(sql, last.name).dir

\* the commit c of the repository before the step is a commit of it after
\* the step, with the same data, files and change record
CommitKept(k, c) ==
    IF impl = "graph_db"
    THEN LET r0 == gdb.repos[k]
             r1 == gdb'.repos[k]
         IN  /\ c \in DOMAIN r1.commits
             /\ r1.commits[c] = r0.commits[c]
             /\ (c \in DOMAIN r0.changes)
                   => (c \in DOMAIN r1.changes /\ r1.changes[c] = r0.changes[c])
    ELSE LET r0 == sql.repos[k]
             r1 == sql'.repos[k]
         IN  /\ c \in DOMAIN r1.commits
             /\ r1.commits[c] = r0.commits[c]
             /\ r1.files[c] = r0.files[c]
             /\ r1.changes[c] = r0.changes[c]

\* C35: a recorded commit keeps its message, author, timestamp, parent_id,
\* files and change record over every push, pull and clone, in both
\* backends.
C35_CommitsImmutable ==
    [][last'.op \in {"create", "push", "pull", "clone"}
          => \A k \in Dirs :
                 \A c \in DOMAIN (IF impl = "graph_db" THEN gdb.repos[k].commits
                                  ELSE sql.repos[k].commits) :
                     CommitKept(k, c)]_vars

\* a push has sent a recorded id with other data, or a pull has met a
\* commit the target held, and a second commit is on record beside it
C35_Witness ==
    /\ \/ last.op = "push" /\ last.kind = "exists" /\ last.differs
       \/ last.op = "pull" /\ last.code = 200 /\ last.m >= 1
    /\ validate_repo_name(last.name)
    /\ Cardinality(DOMAIN CommitsAt(gdb, sql, last.name)) = 2

\* C36: in every graph_db repository HEAD is null exactly when there is no
\* commit, and a HEAD that is not null names a commit of the repository.
C36_HeadNullIffEmpty ==
    impl = "graph_db" =>
        \A k \in Dirs :
            LET r == gdb.repos[k]
            IN  r.graph => /\ (r.HEAD = None) <=> (DOMAIN r.commits = {})
                           /\ r.HEAD # None => r.HEAD \in DOMAIN r.commits

\* a repository that a clone or a pull has filled holds commits and a HEAD
C36_Witness ==
    /\ impl = "graph_db" /\ last.op \in {"pull", "clone"} /\ last.code = 200
    /\ validate_repo_name(last.name)
    /\ LET r == RepoG(gdb, last.name)
       IN  r.HEAD # None /\ Cardinality(DOMAIN r.commits) = 2

\* C38: a create, push, pull, clone or delete under validated names changes
\* only the repository it names as its target: every other repository, the
\* source of a pull or a clone among them, is after the step as it was
\* before it, in both stores.
C38_OnlyTargetChanges ==
    [][(last'.op \in {"create", "push", "pull", "clone", "delete"}
        /\ NamesValid(last'))
          => \A k \in Dirs \ {get_repo_path(last'.name)} :
                 gdb'.repos[k] = gdb.repos[k] /\ sql'.repos[k] = sql.repos[k]]_vars

\* C39: in graph_db a repository directory is never there without its
\* graph, so after create_repo has answered 200 for a validated name,
\* get_commits on the name answers 200 and no push to it answers 404 or 500.
C39_DirectoryHasGraph ==
    impl = "graph_db" =>
        /\ \A k \in Dirs : gdb.repos[k].dir => gdb.repos[k].graph
        /\ (last.op = "create" /\ last.code = 200 /\ validate_repo_name(last.name))
              => /\ get_commits_g(gdb, last.name).code = 200
                 /\ \A d \in DescriptorsFor(impl, last.name) :
                        PushG(RepoG(gdb, last.name), d).code \notin {404, 500}

\* thread t has answered a request of the operation with an error, and no
\* other request has arrived
FailedAlone(t, op) ==
    /\ threads[t].pc = "done" /\ threads[t].op = op
    /\ threads[t].resp[1].code # 200
    /\ \A u \in Threads \ {t} : threads[u].pc = "idle"

\* the repository of the requests is as it was when they arrived: created,
\* without commits, change records and HEAD, graph.json being whole
AsCreated ==
    LET k == get_repo_path(TargetName)
    IN  IF impl = "graph_db"
        THEN /\ k \notin torn
             /\ gdb.repos[k].graph
             /\ gdb.repos[k].commits = EmptyMap
             /\ gdb.repos[k].changes = EmptyMap
             /\ gdb.repos[k].HEAD = None
        ELSE /\ sql.repos[k].db
             /\ sql.repos[k].commits = EmptyMap
             /\ sql.repos[k].files = EmptyMap
             /\ sql.repos[k].changes = EmptyMap

\* C34: a push that answers an error, a fault at any of its accesses
\* included, leaves the commits, the change records and the HEAD of the
\* repository as they were before it, in both backends.
C34_FailedPushRecordsNothing ==
    \A t \in Threads : FailedAlone(t, "push") => AsCreated

\* C37: a pull that answers an error leaves the commits, the change records
\* and the HEAD of the target as they were before it.
C37_FailedPullChangesNothing ==
    \A t \in Threads : FailedAlone(t, "pull") => AsCreated

\* C40: when a delete_repo and a push on the same graph_db repository have
\* both answered, the repository is as after one of the two serial orders:
\* it is not there (push, then delete), or it holds the pushed commit alone
\* (delete, then push); no commit of it lacks a blob.
C40_DeleteAndPushSerial ==
    (/\ \A t \in Threads : threads[t].pc = "done"
     /\ {threads[t].op : t \in Threads} = {"push", "delete"})
        => LET k == get_repo_path(TargetName)
               r == gdb.repos[k]
               p == CHOOSE t \in Threads : threads[t].op = "push"
               d == threads[p].req[1]
           IN  /\ k \notin torn
               /\ r \in {NoRepoG, PushG(NoRepoG, d).repo}
               /\ \A c \in DOMAIN r.commits :
                      \A f \in DOMAIN r.commits[c].files :
                          r.commits[c].files[f] \in DOMAIN r.objects

====
